---- MODULE Spec2Model ----
(***************************************************************************)
(* Verification model of the IFEM excerpt:                                 *)
(*   - NewmarkNLSIM  (src/src/SIM/NewmarkNLSIM.C)   predictor/corrector    *)
(*   - NewmarkMats   (src/src/ASM/NewmarkMats.C)    element matrices       *)
(*   - ASMu3D        (src/src/ASM/LR/ASMu3Drecovery.C) recovery            *)
(*   - SIMSolver     (src/src/ASM/IBGeometries.h)   time-step driver       *)
(*   - SplineFields2D (src/src/ASM/SplineFields2D.C) spline vector fields  *)
(*   - SIMdependency (src/unnamed/part_001)         coupled simulators     *)
(*                                                                         *)
(* Real numbers (C++ double) are modelled as exact rationals <<n,d>> in    *)
(* lowest terms with d > 0, extended by the IEEE non-finite values         *)
(* <<1,0>> (+Inf), <<-1,0>> (-Inf) and <<0,0>> (NaN), so that every        *)
(* expression of the code is total.  Rounding and the sign of zero are     *)
(* not modelled.                                                           *)
(***************************************************************************)
EXTENDS Integers, Sequences, FiniteSets, TLC

\* ------------------------------------------------------------------------
\* Bounds of the model
\* ------------------------------------------------------------------------
\* number of degrees of freedom of the FE model (model.getNoDOFs()), and
\* of one element (the dimension of the element matrices)
NDofs == 1
\* largest number of solution vectors requested from init(nSol)
MaxSol == 5
\* number of NewmarkNLSIM operations issued after init()
MaxOps == 4
\* number of predictStep calls issued
MaxPredicts == 2
\* number of time steps after which TimeStep::increment() reports the end
LastStep == 2
\* largest time level a restart file holds
MaxLevel == 3
\* largest number of nodes of one basis of a 2D patch
MaxNodes == 2
\* largest number of elements of a patch that is assembled or whose face
\* is projected onto
MaxAssemblyEl == 3
\* number of registerField and registerDependency calls issued
MaxRegs == 3
\* number of OpenMP threads evaluating fields
NThreads == 2
\* number of getRHSVector calls issued on element matrices between two
\* rebuilds
MaxRhs == 2
\* largest number of basis functions of the LR spline of a patch
MaxBasis == 6
\* largest number of elements on a patch face
MaxFaceEl == 2
\* largest number of components of a projected field
MaxCmp == 2

\* ------------------------------------------------------------------------
\* double arithmetic
\* ------------------------------------------------------------------------
Abs(n) == IF n < 0 THEN -n ELSE n

Sgn(n) == IF n < 0 THEN -1 ELSE IF n > 0 THEN 1 ELSE 0

RECURSIVE GCD(_, _)
GCD(a, b) == IF b = 0 THEN a ELSE GCD(b, a % b)

\* canonical form of the fraction n/d
Norm(n, d) ==
  IF d = 0 THEN <<Sgn(n), 0>>
  ELSE LET g == GCD(Abs(n), Abs(d))
       IN  <<(Sgn(d) * n) \div g, Abs(d) \div g>>

Zero == <<0, 1>>
One == <<1, 1>>
Half == <<1, 2>>
Quarter == <<1, 4>>
NaN == <<0, 0>>

IsFinite(x) == x[2] # 0

RNeg(x) == <<-x[1], x[2]>>

\* x*y, cancelling across before multiplying (TLC integers are 32 bit)
RMul(x, y) ==
  IF x[2] = 0 \/ y[2] = 0 \/ x[1] = 0 \/ y[1] = 0
  THEN Norm(x[1] * y[1], x[2] * y[2])
  ELSE LET g1 == GCD(Abs(x[1]), y[2])
           g2 == GCD(Abs(y[1]), x[2])
       IN  <<(x[1] \div g1) * (y[1] \div g2),
             (x[2] \div g2) * (y[2] \div g1)>>

RAdd(x, y) ==
  IF x[2] = 0 /\ y[2] = 0
  THEN (IF x[1] = y[1] THEN x ELSE NaN)
  ELSE IF x[2] = 0 \/ y[2] = 0
  THEN Norm(x[1] * y[2] + y[1] * x[2], 0)
  ELSE LET g == GCD(x[2], y[2])
       IN  Norm(x[1] * (y[2] \div g) + y[1] * (x[2] \div g),
                (x[2] \div g) * y[2])

RSub(x, y) == RAdd(x, RNeg(y))

\* 1/x; 1/0 is +Inf
RInv(x) == IF x = NaN THEN NaN ELSE Norm(x[2], x[1])

RDiv(x, y) == RMul(x, RInv(y))

RLess(x, y) == IsFinite(x) /\ IsFinite(y) /\ x[1] * y[2] < y[1] * x[2]

\* fabs()
RAbs(x) == <<Abs(x[1]), x[2]>>

\* ------------------------------------------------------------------------
\* utl::vector<double>
\* ------------------------------------------------------------------------
\* resize(n,true): n zeros
ZeroVec(n) == [i \in 1..n |-> Zero]

\* operator*=(alfa)
VScale(x, alfa) == [i \in 1..Len(x) |-> RMul(x[i], alfa)]

\* y.add(x,alfa): y += alfa*x
VAdd(y, x, alfa) == [i \in 1..Len(y) |-> RAdd(y[i], RMul(alfa, x[i]))]

RECURSIVE RSum(_, _)
RSum(f, n) == IF n = 0 THEN Zero ELSE RAdd(RSum(f, n - 1), f[n])

\* mutant: the vector left as it is
VFill_Untouched(x, s) == x

\* fill(s)
VFill(x, s) == [i \in 1..Len(x) |-> s]

\* all vectors of length n over the value set S
Vectors(n, S) == [1..n -> S]

\* ------------------------------------------------------------------------
\* State
\* ------------------------------------------------------------------------
VARIABLES
  \* --- NewmarkNLSIM ---
  solution,   \* solution history: displacements ..., velocity, acceleration
  incDis,     \* accumulated displacement increment of the current step
  predVel,    \* retained velocity prediction
  predAcc,    \* retained acceleration prediction
  Finert,     \* cached inertia vector: <<>> is NULL, <<v>> points to v
  beta,       \* Newmark parameter
  gamma,      \* Newmark parameter
  linsol,     \* last linear-solver increment handed to correctStep
  param,      \* TimeStep: [step, dt]
  simModel,   \* the SIMbase collaborator: [intPrm, rhsAdds, config]
  nlOp,       \* the NewmarkNLSIM method that ran last
  nlArg,      \* its boolean argument (converged, updateTime), what parse
              \* was given ("other", "default", "alpha"), or "none"
  nlRet,      \* its return value: "none", "true" or "false"
  nOps,       \* number of operations issued after init()
  nPred,      \* number of predictStep calls issued
  predDis,    \* <<>>, or <<d>>: d is the displacement solution[0] held
              \* when the last predictStep that returned true returned
  \* --- NewmarkMats ---
  elMats,     \* the object: alpha1, alpha2, beta, gamma, alpha_m, alpha_f,
              \* slvDisp, isPredictor, h, A (A[1] is A[0] of the code: the
              \* Newton matrix, A[2] the mass and A[3] the stiffness matrix),
              \* b (the right-hand-side vectors), vec (the element solution
              \* vectors) and argB, argC, argGA: the constructor's arguments
              \* b, c and generalizedAlpha
  matsOp,     \* the NewmarkMats method that ran last
  matsRet,    \* <<>>, or <<r>> when that method returned r
  nRhs,       \* number of getRHSVector calls since the last rebuild
  \* --- ASMu3D (recovery) ---
  lrspline,   \* the LR spline of the patch, as the geometry library shows it
  recOp,      \* the recovery method that ran last
  recArgs,    \* its arguments
  recRes,     \* its result: <<>> is nullptr, <<x>> a new spline
  recLog,     \* the collaborator calls it made
  result,     \* the control-point values faceL2projection writes into
  \* --- ASMu3D (one local projection, one global assembly) ---
  fitOp,      \* the part of the recovery that ran last
  fitArgs,    \* its inputs
  fitRes,     \* what it computed
  \* --- SIMSolver ---
  restartArgs, \* the arguments of restart() and what its collaborators did
  restartRet,  \* <<>> before the call, <<r>> when restart() returned r
  driver,      \* solveProblem(): <<>> when not in use, else [pc, ret, log,
               \* tp, saveDivergedSol, exporter, saveInit]; log lists the
               \* calls made, each with what it returned
  \* --- SplineFields2D ---
  fieldsArgs, \* the arguments of the constructor
  fields,     \* <<>> before construction, then [nno, nf, values, reads,
              \* formed]
  \* --- SplineFields2D (evaluation by OpenMP threads) ---
  shared,     \* what the fields evaluated share: "none" when no thread
              \* runs, else whether their basis is a spline of its own
              \* ("own"), the surface itself ("surf") or NULL ("null")
  threads,    \* per thread [todo, at]: the calls on spline objects the
              \* method it runs still has to make, and whether it is
              \* executing the first of them ("in") or not ("out")
  critical,   \* the thread inside an unnamed omp critical region, or 0
  \* --- SIMdependency ---
  myFields,   \* per simulator, the registered field of each name: the
              \* vector pointed to, 0 being NULL
  depFields,  \* the dependencies registered with the dependent simulator
  fieldLog,   \* the registerField calls made, in order
  extraction  \* <<>>, or what extractPatchDependencies was given and did

varsNLSIM == <<solution, incDis, predVel, predAcc, Finert, beta, gamma,
               linsol, param, simModel, nlOp, nlArg, nlRet, nOps,
               nPred, predDis>>

varsMats == <<elMats, matsOp, matsRet, nRhs>>

varsRec == <<lrspline, recOp, recArgs, recRes, recLog, result>>

varsFit == <<fitOp, fitArgs, fitRes>>

varsSolver == <<restartArgs, restartRet, driver>>

varsFields == <<fieldsArgs, fields>>

varsOmp == <<shared, threads, critical>>

varsDep == <<myFields, depFields, fieldLog, extraction>>

vars == <<varsNLSIM, varsMats, varsRec, varsFit, varsSolver, varsFields,
          varsOmp, varsDep>>

\* what the NewmarkNLSIM actions leave alone
notNLSIM == <<varsMats, varsRec, varsFit, varsSolver, varsFields,
             varsOmp, varsDep>>

\* what the NewmarkMats actions leave alone
notMats == <<varsNLSIM, varsRec, varsFit, varsSolver, varsFields,
             varsOmp, varsDep>>

\* what the ASMu3D actions leave alone
notRec == <<varsNLSIM, varsMats, varsFit, varsSolver, varsFields,
             varsOmp, varsDep>>

\* what the local projection and the global assembly leave alone
notFit == <<varsNLSIM, varsMats, varsRec, varsSolver, varsFields,
             varsOmp, varsDep>>

\* what SIMSolver::restart leaves alone
notSolver == <<varsNLSIM, varsMats, varsRec, varsFit, varsFields,
             varsOmp, varsDep>>

\* what the SplineFields2D constructor leaves alone
notFields == <<varsNLSIM, varsMats, varsRec, varsFit, varsSolver,
             varsOmp, varsDep>>

\* what the threads evaluating fields leave alone
notOmp == <<varsNLSIM, varsMats, varsRec, varsFit, varsSolver, varsFields,
            varsDep>>

\* what the SIMdependency methods leave alone
notDep == <<varsNLSIM, varsMats, varsRec, varsFit, varsSolver, varsFields,
            varsOmp>>

\* no thread evaluates a field
IdleOmp ==
  /\ shared = "none"
  /\ threads = <<>>
  /\ critical = 0

\* no simulator with dependencies is in use
IdleDep ==
  /\ myFields = <<>>
  /\ depFields = <<>>
  /\ fieldLog = <<>>
  /\ extraction = <<>>

\* ------------------------------------------------------------------------
\* SIMSolver::restart
\* ------------------------------------------------------------------------
\* The restart file is read by HDF5Writer::readRestartData, which returns
\* the time level read or a negative code, and the state is restored by
\* deSerialize, which returns whether it succeeded: read and deser are
\* what the two calls return if they are made.

\* mutant: the level read returned as it is
Restart_ZeroBased(restartFile, read, deser) ==
  IF restartFile = "" THEN 0
  ELSE IF read >= 0 THEN (IF deser THEN read ELSE -2)
  ELSE read

\* restart(restartFile,restartStep): the value returned
Restart(restartFile, read, deser) ==
  IF restartFile = "" THEN 0
  ELSE IF read >= 0 THEN (IF deser THEN read + 1 ELSE -2)
  ELSE read

\* the names of the restart file
RestartFiles == {"", "restart.hdf5"}

\* the time levels asked for, -1 asking for the last one
RestartSteps == -1..MaxLevel

\* what readRestartData returns
ReadResults == -3..MaxLevel

InitSolver ==
  /\ restartArgs = <<>>
  /\ restartRet = <<>>
  /\ driver = <<>>

\* no solver is in use
IdleSolver ==
  /\ restartArgs = "idle"
  /\ restartRet = <<>>
  /\ driver = <<>>

restart(restartFile, restartStep, read, deser) ==
  /\ restartRet = <<>>
  /\ restartArgs' = [restartFile |-> restartFile, restartStep |-> restartStep,
                     read |-> read, deser |-> deser]
  /\ restartRet' = <<Restart(restartFile, read, deser)>>
  /\ UNCHANGED driver
  /\ UNCHANGED notSolver

NextSolver ==
  restartArgs = <<>> /\ \E restartFile \in RestartFiles,
      restartStep \in RestartSteps, read \in ReadResults, deser \in BOOLEAN :
    restart(restartFile, restartStep, read, deser)

\* ------------------------------------------------------------------------
\* SplineFields2D::SplineFields2D
\* ------------------------------------------------------------------------
\* A patch is [nodes, fields]: getNoNodes(i) and getNoFields(i) of its
\* bases i = 1, 2.  Values are integers.  Reading v at or past v.end() is
\* undefined: it gives any of the values Garbage.
Garbage == {0, 77}

\* ofs: the entries of v that belong to the bases before nbasis
Offset(patch, nbasis) ==
  IF nbasis = 1 THEN 0 ELSE patch.nodes[1] * patch.fields[1]

\* the constructor: [nno, nf, values, reads, formed]; g is what a read past
\* the end of v gives.  Positions in v count from 0 as the iterators do:
\* reads are the positions of v the constructor reads (of a std::copy from
\* behind v.end() the first one), formed the positions its iterators take.
SplineFields2D(patch, v, nbasis, nnf, g) ==
  LET nno == patch.nodes[nbasis]
      ofs == Offset(patch, nbasis)
      nf == IF nnf = 0 THEN 2 ELSE nnf
      nfc == patch.fields[nbasis]
      ndof == nfc * nno
      end == IF Len(v) > ofs + ndof THEN ofs + ndof ELSE Len(v)
      Read(k) == IF k < Len(v) THEN v[k + 1] ELSE g
      Met(i) == \A o \in 0..i : ofs + nfc * o # end
      nodes == {i \in 0..(nno - 1) : Met(i)}
  IN  [nno |-> nno, nf |-> nf,
       reads |->
         IF nfc = nf
         THEN (IF ofs > end THEN {ofs} ELSE ofs..(end - 1))
         ELSE {ofs + nfc * i + j : i \in nodes, j \in 0..(nf - 1)},
       formed |->
         {ofs, end}
         \cup (IF nfc = nf THEN {} ELSE {ofs + nfc * (i + 1) : i \in nodes}),
       values |->
         IF nfc = nf
         THEN IF ofs > end
              THEN [k \in 1..(nno * nf) |-> g]
              ELSE [k \in 1..(nno * nf) |->
                      IF k <= end - ofs THEN v[ofs + k] ELSE 0]
         ELSE [k \in 1..(nno * nf) |->
                 IF Met((k - 1) \div nf)
                 THEN Read(ofs + nfc * ((k - 1) \div nf) + ((k - 1) % nf))
                 ELSE 0]]

\* the patches
Patches2D == [nodes : [1..2 -> 1..MaxNodes], fields : [1..2 -> 1..MaxCmp]]

\* the solution vectors of a patch: entry k holds 10+k, and the vector
\* may be shorter or longer than the patch needs
SolutionVectors(patch) ==
  {[k \in 1..n |-> 10 + k] :
     n \in 0..(patch.nodes[1] * patch.fields[1]
                + patch.nodes[2] * patch.fields[2] + 1)}

InitFields ==
  /\ fieldsArgs = <<>>
  /\ fields = <<>>

\* no field is in use
IdleFields ==
  /\ fieldsArgs = "idle"
  /\ fields = <<>>

construct(patch, v, nbasis, nnf) ==
  /\ fields = <<>>
  /\ fieldsArgs' = [patch |-> patch, v |-> v, nbasis |-> nbasis, nnf |-> nnf]
  /\ \E g \in Garbage : fields' = SplineFields2D(patch, v, nbasis, nnf, g)
  /\ UNCHANGED notFields

NextFields ==
  fieldsArgs = <<>> /\ \E patch \in Patches2D, nbasis \in 1..2,
      nnf \in 0..(MaxCmp + 1) :
    \E v \in SolutionVectors(patch) : construct(patch, v, nbasis, nnf)

\* ------------------------------------------------------------------------
\* SplineFields2D: evaluation by concurrent threads
\* ------------------------------------------------------------------------
\* The calls a method makes on the spline objects, in order; each is named
\* method/object.  The fields evaluated share their basis and surface.

\* valueFE: nothing without a basis
ValueFE(sh) == IF sh = "null" THEN <<>> ELSE <<"valueFE/basis">>

\* valueCoor: the closest point is searched for when x has no parameters
ValueCoor(sh, hasU) ==
  (IF hasU THEN <<>> ELSE <<"valueCoor/surf">>) \o ValueFE(sh)

\* gradFE: the basis is evaluated after the surface in a mixed formulation
GradFE(sh) ==
  IF sh = "null" THEN <<>>
  ELSE <<"gradFE/surf">> \o (IF sh = "own" THEN <<"gradFE/basis">> ELSE <<>>)

\* hessianFE: second derivatives of the surface if it is the basis, else
\* first derivatives of the surface and second derivatives of the basis
HessianFE(sh) ==
  IF sh = "null" THEN <<>>
  ELSE IF sh = "surf" THEN <<"hessianFE/surf2">>
  ELSE <<"hessianFE/surf", "hessianFE/basis">>

\* the calls a thread may start with
Plans(sh) ==
  {ValueFE(sh), ValueCoor(sh, TRUE), ValueCoor(sh, FALSE), GradFE(sh),
   HessianFE(sh)}

\* mutant: the basis evaluation of gradFE left unguarded
Critical_GradBasisOpen(site) ==
  site \in {"valueFE/basis", "valueCoor/surf", "gradFE/surf",
            "hessianFE/surf2", "hessianFE/surf", "hessianFE/basis"}

\* the call is the statement of a `#pragma omp critical`
Critical(site) ==
  site \in {"valueFE/basis", "valueCoor/surf", "gradFE/surf", "gradFE/basis",
            "hessianFE/surf2", "hessianFE/surf", "hessianFE/basis"}

Threads == 1..NThreads

\* the threads of a parallel region, about to evaluate fields
InitOmp ==
  /\ shared \in {"own", "surf", "null"}
  /\ threads = [t \in Threads |-> [todo |-> <<>>, at |-> "out"]]
  /\ critical = 0

\* thread t calls a method
call(t, plan) ==
  /\ threads[t].todo = <<>>
  /\ plan # <<>>
  /\ threads' = [threads EXCEPT ![t].todo = plan]
  /\ UNCHANGED <<shared, critical>>
  /\ UNCHANGED notOmp

\* thread t starts its next call on a spline object: inside a critical
\* region it does so only when no thread is in one (the regions have no
\* name, so they all are the same region)
enter(t) ==
  /\ threads[t].todo # <<>>
  /\ threads[t].at = "out"
  /\ Critical(Head(threads[t].todo)) => critical = 0
  /\ threads' = [threads EXCEPT ![t].at = "in"]
  /\ critical' = IF Critical(Head(threads[t].todo)) THEN t ELSE critical
  /\ UNCHANGED shared
  /\ UNCHANGED notOmp

\* the call of thread t returns
leave(t) ==
  /\ threads[t].at = "in"
  /\ threads' = [threads EXCEPT ![t].at = "out",
                                ![t].todo = Tail(threads[t].todo)]
  /\ critical' = IF critical = t THEN 0 ELSE critical
  /\ UNCHANGED shared
  /\ UNCHANGED notOmp

NextOmp ==
  \/ \E t \in Threads, plan \in Plans(shared) : call(t, plan)
  \/ \E t \in Threads : enter(t)
  \/ \E t \in Threads : leave(t)

\* ------------------------------------------------------------------------
\* SIMdependency
\* ------------------------------------------------------------------------
\* Two simulators: S1 has the dependencies, both provide fields.  A vector
\* is known by its address 1, 2, ... (0 is NULL); a patch by its name.
Sims == {"S1", "S2"}

FieldNames == {"a", "b"}

\* the vectors registered as fields
VecIds == 1..2

\* what the vector at an address holds: the first one is empty
Content(vec) == IF vec = 1 THEN <<>> ELSE [i \in 1..vec |-> 10 * vec + i]

\* getField(name) on the map flds
GetField(flds, name) == flds[name]

\* mutant: a name registered before keeps its vector
RegisterField_Insert(flds, name, vec) ==
  IF flds[name] # 0 THEN flds ELSE [flds EXCEPT ![name] = vec]

\* registerField(name,vec) on the map flds: myFields[name] = &vec
RegisterField(flds, name, vec) == [flds EXCEPT ![name] = vec]

\* registerDependency(sim,name,nvc,patches,diffBasis) on the list deps
RegisterDependency(deps, sim, name, nvc, patches, diffBasis) ==
  Append(deps, [sim |-> sim, name |-> name, components |-> nvc,
                patches |-> patches, differentBasis |-> diffBasis])

\* mutant: the patch always taken from the model
PatchOf_Model(dep, model, pindx) == model[pindx + 1]

\* the patch the nodal values are extracted for (pindx counts from 0)
PatchOf(dep, model, pindx) ==
  IF pindx < Len(dep.patches) THEN dep.patches[pindx + 1]
  ELSE model[pindx + 1]

\* bflag
BasisFlag(components) == IF components < 0 THEN components ELSE 0

\* what patch->extractNodeVec(gvec,lvec,nndof,basis) leaves in lvec
ExtractNodeVec(patch, gvec, nndof, basis) ==
  [patch |-> patch, from |-> gvec, nndof |-> nndof, basis |-> basis]

\* the loop of extractPatchDependencies from dependency k on; st holds the
\* named vectors of the problem (<<>> is NULL, <<x>> a vector holding x),
\* the extractNodeVec calls made and the named fields set
RECURSIVE ExtractFrom(_, _, _, _, _, _)
ExtractFrom(deps, k, flds, st, model, pindx) ==
  IF k > Len(deps) THEN st
  ELSE LET it == deps[k]
           gvec == GetField(flds[it.sim], it.name)
           lvec == st.vectors[it.name]
       IN  IF lvec # <<>> /\ gvec # 0 /\ Content(gvec) # <<>>
           THEN LET patch == PatchOf(it, model, pindx)
                    bflag == BasisFlag(it.components)
                    nndof == Abs(it.components)
                IN  ExtractFrom(deps, k + 1, flds,
                      [vectors |->
                         [st.vectors EXCEPT ![it.name] =
                            <<ExtractNodeVec(patch, gvec, nndof, bflag)>>],
                       calls |->
                         Append(st.calls,
                                [dep |-> k, patch |-> patch, gvec |-> gvec,
                                 nndof |-> nndof, basis |-> bflag]),
                       named |->
                         IF it.differentBasis
                         THEN Append(st.named,
                                [name |-> it.name, patch |-> patch,
                                 kind |-> IF it.components = 1
                                          THEN "Field" ELSE "Fields"])
                         ELSE st.named],
                      model, pindx)
           ELSE ExtractFrom(deps, k + 1, flds, st, model, pindx)

\* the dependencies registered with their patches
Dependencies ==
  {<<"S2", "a", 1, <<"p1", "p2">>, TRUE>>, <<"S2", "b", -2, <<"p1">>, FALSE>>,
   <<"S1", "a", 2, <<>>, TRUE>>, <<"S2", "a", 2, <<"p1">>, FALSE>>}

\* the dependencies registered without patches
PlainDependencies == {<<"S2", "a", 2>>, <<"S1", "b", -2>>}

\* what a named vector of the problem holds before the extraction
Stale == [patch |-> "none", from |-> 0, nndof |-> 0, basis |-> 0]

\* the named vectors of the problem
Problems ==
  {[n \in FieldNames |-> <<Stale>>], [n \in FieldNames |-> <<>>],
   [n \in FieldNames |-> IF n = "a" THEN <<>> ELSE <<Stale>>]}

\* the patches of the model
ModelPatches == <<"m1", "m2">>

\* two simulators without fields or dependencies
InitDep ==
  /\ myFields = [sim \in Sims |-> [n \in FieldNames |-> 0]]
  /\ depFields = <<>>
  /\ fieldLog = <<>>
  /\ extraction = <<>>

\* registrations go on until the dependencies are extracted
Registering ==
  /\ myFields # <<>>
  /\ extraction = <<>>
  /\ Len(fieldLog) + Len(depFields) < MaxRegs

\* sim.registerField(name,vec)
registerField(sim, name, vec) ==
  /\ Registering
  /\ myFields' = [myFields EXCEPT ![sim] = RegisterField(@, name, vec)]
  /\ fieldLog' = Append(fieldLog, [sim |-> sim, name |-> name, vec |-> vec])
  /\ UNCHANGED <<depFields, extraction>>
  /\ UNCHANGED notDep

\* S1.registerDependency(sim,name,nvc,patches,diffBasis)
registerDependency(sim, name, nvc, patches, diffBasis) ==
  /\ Registering
  /\ depFields' =
       RegisterDependency(depFields, sim, name, nvc, patches, diffBasis)
  /\ UNCHANGED <<myFields, fieldLog, extraction>>
  /\ UNCHANGED notDep

\* S1.registerDependency(sim,name,nvc): patches stays empty and
\* differentBasis is not assigned, db is the value the Dependency is left
\* with
registerDependency3(sim, name, nvc, db) ==
  /\ Registering
  /\ depFields' = RegisterDependency(depFields, sim, name, nvc, <<>>, db)
  /\ UNCHANGED <<myFields, fieldLog, extraction>>
  /\ UNCHANGED notDep

\* S1.extractPatchDependencies(problem,model,pindx)
extractPatchDependencies(problem, model, pindx) ==
  /\ myFields # <<>>
  /\ extraction = <<>>
  /\ \E st \in {ExtractFrom(depFields, 1, myFields,
                             [vectors |-> problem, calls |-> <<>>,
                              named |-> <<>>], model, pindx)} :
       extraction' = [problem |-> problem, model |-> model, pindx |-> pindx,
                      ret |-> TRUE, vectors |-> st.vectors,
                      calls |-> st.calls, named |-> st.named]
  /\ UNCHANGED <<myFields, depFields, fieldLog>>
  /\ UNCHANGED notDep

NextDep ==
  \/ \E sim \in Sims, name \in FieldNames, vec \in VecIds :
       registerField(sim, name, vec)
  \/ \E d \in Dependencies : registerDependency(d[1], d[2], d[3], d[4], d[5])
  \/ \E d \in PlainDependencies, db \in BOOLEAN :
       registerDependency3(d[1], d[2], d[3], db)
  \/ \E problem \in Problems, pindx \in 0..(Len(ModelPatches) - 1) :
       extractPatchDependencies(problem, ModelPatches, pindx)

\* ------------------------------------------------------------------------
\* NewmarkNLSIM
\* ------------------------------------------------------------------------
\* the values the model's inputs are drawn from
LinsolVals == {Zero, One}

\* the increments the linear solver delivers: c*(1,2,...,nDOFs)
LinsolVecs == {[i \in 1..NDofs |-> RMul(c, <<i, 1>>)] : c \in LinsolVals}

\* what model.getRHSvector(1,true) delivers: NULL or a new vector
InertiaPtrs == {<<>>, <<[i \in 1..NDofs |-> <<i, 1>>]>>}

\* the time step sizes of the TimeStep object handed to the driver
TimeSteps == {<<10, 1>>}

\* attribute values of <newmarksolver alpha="...">; <<>> is "no attribute"
AlphaAttrs == {<<>>, <<(<<-1, 1>>)>>}

\* alpha1 and alpha2 of the base class NewmarkSIM (no Rayleigh damping)
simAlpha1 == Zero

simAlpha2 == Zero

BoolStr(b) == IF b THEN "true" ELSE "false"

\* NewmarkNLSIM::NewmarkNLSIM
InitNLSIM ==
  /\ solution = <<>>
  /\ incDis = <<>>
  /\ predVel = <<>>
  /\ predAcc = <<>>
  /\ Finert = <<>>
  /\ beta = <<121, 400>>
  /\ gamma = <<3, 5>>
  /\ linsol = <<>>
  /\ param \in [step : {0}, dt : TimeSteps]
  /\ simModel = [intPrm |-> <<Zero, Zero, Zero>>, rhsAdds |-> <<>>,
                 config |-> <<>>]
  /\ nlOp = "new"
  /\ nlArg = "none"
  /\ nlRet = "none"
  /\ nOps = 0
  /\ nPred = 0
  /\ predDis = <<>>

\* mutant: beta linear in alpha
ParseBeta_Linear(alpha) == RMul(Quarter, RSub(One, alpha))

\* beta as parse computes it from alpha
ParseBeta(alpha) ==
  RMul(RMul(Quarter, RSub(One, alpha)), RSub(One, alpha))

\* gamma as parse computes it from alpha
ParseGamma(alpha) == RSub(Half, alpha)

\* NewmarkNLSIM::parse; ok is the result of NewmarkSIM::parse
parse(isNewmarkSolver, attr, ok) ==
  /\ nlOp = "new"
  /\ IF isNewmarkSolver
     THEN LET alpha == IF attr # <<>> THEN attr[1] ELSE <<-1, 10>>
          IN  /\ beta' = ParseBeta(alpha)
              /\ gamma' = ParseGamma(alpha)
     ELSE UNCHANGED <<beta, gamma>>
  /\ nlOp' = "parse"
  /\ nlArg' = (IF ~isNewmarkSolver THEN "other"
               ELSE IF attr = <<>> THEN "default" ELSE "alpha")
  /\ nlRet' = BoolStr(ok)
  /\ UNCHANGED <<solution, incDis, predVel, predAcc, Finert, linsol, param,
                 simModel, nOps, nPred, predDis>>
  /\ UNCHANGED notNLSIM

\* NewmarkNLSIM::init; nSols is model.getNoSolutions()
init(nSol, nSols) ==
  /\ nlOp \in {"new", "parse"}
  /\ LET n == IF nSols > nSol THEN nSols ELSE nSol
     IN  solution' = [k \in 1..n |-> ZeroVec(NDofs)]
  /\ simModel' = [simModel EXCEPT
                    !.intPrm = <<simAlpha1, simAlpha2, RSub(Half, gamma)>>]
  /\ incDis' = ZeroVec(NDofs)
  /\ predVel' = ZeroVec(NDofs)
  /\ predAcc' = ZeroVec(NDofs)
  /\ nlOp' = "init"
  /\ nlArg' = "none"
  /\ nlRet' = "none"
  /\ UNCHANGED <<Finert, beta, gamma, linsol, param, nOps, nPred, predDis>>
  /\ UNCHANGED notNLSIM

Stepping == nlOp \notin {"new", "parse"} /\ nOps < MaxOps

\* TimeStep::increment: <<the TimeStep afterwards, the result>>
increment(p) ==
  IF p.step >= LastStep THEN <<p, FALSE>>
  ELSE <<[p EXCEPT !.step = p.step + 1], TRUE>>

\* mutant: the loop counting up, which copies slot 0 into every slot
RECURSIVE ShiftHistory_Ascending(_, _)
ShiftHistory_Ascending(sol, n) ==
  IF n > 0 THEN [ShiftHistory_Ascending(sol, n - 1) EXCEPT
                   ![n + 1] = ShiftHistory_Ascending(sol, n - 1)[n]]
  ELSE sol

\* the history-shifting loop of advanceStep, n counting down to 1
\* (slot n of the code is sol[n+1] here)
RECURSIVE ShiftHistory(_, _)
ShiftHistory(sol, n) ==
  IF n > 0 THEN ShiftHistory([sol EXCEPT ![n + 1] = sol[n]], n - 1)
  ELSE sol

\* NewmarkNLSIM::advanceStep
advanceStep(updateTime) ==
  /\ Stepping
  /\ solution' = ShiftHistory(solution, Len(solution) - 3)
  /\ IF updateTime
     THEN /\ param' = increment(param)[1]
          /\ nlRet' = BoolStr(increment(param)[2])
     ELSE /\ param' = param
          /\ nlRet' = "true"
  /\ nlOp' = "advanceStep"
  /\ nlArg' = BoolStr(updateTime)
  /\ nOps' = nOps + 1
  /\ UNCHANGED <<incDis, predVel, predAcc, Finert, beta, gamma, linsol,
                 simModel, nPred, predDis>>
  /\ UNCHANGED notNLSIM

\* NewmarkNLSIM::finalizeRHSvector
finalizeRHSvector ==
  /\ Stepping
  /\ IF Finert # <<>>
     THEN simModel' = [simModel EXCEPT !.rhsAdds =
            Append(@, [idx |-> 0, vec |-> Finert[1],
                       scale |-> RSub(gamma, Half)])]
     ELSE simModel' = simModel
  /\ nlOp' = "finalizeRHSvector"
  /\ nlArg' = "none"
  /\ nlRet' = "none"
  /\ nOps' = nOps + 1
  /\ UNCHANGED <<solution, incDis, predVel, predAcc, Finert, beta, gamma,
                 linsol, param, nPred, predDis>>
  /\ UNCHANGED notNLSIM

\* mutant: the acceleration term read from the displacement slot
PredictedVel_WrongSlot(sol, b, g, dt) ==
  VAdd(VScale(sol[Len(sol) - 1], RSub(RDiv(g, b), One)), sol[1],
       RMul(RSub(RDiv(RMul(Half, g), b), One), dt))

\* predicted new velocity (before the sign change)
PredictedVel(sol, b, g, dt) ==
  LET iA == Len(sol)
      iV == Len(sol) - 1
  IN  VAdd(VScale(sol[iV], RSub(RDiv(g, b), One)), sol[iA],
           RMul(RSub(RDiv(RMul(Half, g), b), One), dt))

\* mutant: the acceleration predicted from the freshly predicted velocity
PredictedAcc_FreshVel(sol, b, g, dt) ==
  VAdd(VScale(sol[Len(sol)], RSub(RDiv(Half, b), One)),
       PredictedVel(sol, b, g, dt), RDiv(One, RMul(b, dt)))

\* predicted new acceleration (before the sign change)
PredictedAcc(sol, b, g, dt) ==
  LET iA == Len(sol)
      iV == Len(sol) - 1
  IN  VAdd(VScale(sol[iA], RSub(RDiv(Half, b), One)), sol[iV],
           RDiv(One, RMul(b, dt)))

\* mutant: a history of two vectors let through
TooShort_Two(sol) == Len(sol) < 2

\* the history is too short for a displacement, a velocity and an
\* acceleration
TooShort(sol) == Len(sol) < 3

\* mutant: the prediction retained with the sign it has in the history
Retained_Unsigned(p) == p

\* the prediction as predVel and predAcc retain it
Retained(p) == VScale(p, <<-1, 1>>)

\* NewmarkNLSIM::predictStep
predictStep ==
  /\ Stepping
  /\ nPred < MaxPredicts
  /\ nPred' = nPred + 1
  /\ nlOp' = "predictStep"
  /\ nlArg' = "none"
  /\ nOps' = nOps + 1
  /\ IF TooShort(solution)
     THEN /\ nlRet' = "false"
          /\ UNCHANGED <<solution, incDis, predVel, predAcc, predDis>>
     ELSE LET iA == Len(solution)
              iV == Len(solution) - 1
              pv == PredictedVel(solution, beta, gamma, param.dt)
              pa == PredictedAcc(solution, beta, gamma, param.dt)
          IN  /\ solution' = [solution EXCEPT ![iV] = pv, ![iA] = pa]
              /\ incDis' = VFill(incDis, Zero)
              /\ predVel' = Retained(pv)
              /\ predAcc' = Retained(pa)
              /\ predDis' = <<solution'[1]>>
              /\ nlRet' = "true"
  /\ UNCHANGED <<Finert, beta, gamma, linsol, param, simModel>>
  /\ UNCHANGED notNLSIM

\* corrected velocity
CorrectedVel(pVel, inc, b, g, dt) == VAdd(pVel, inc, RDiv(g, RMul(b, dt)))

\* mutant: the acceleration update divided by dt once only
CorrectedAcc_OneDt(pAcc, inc, b, dt) == VAdd(pAcc, inc, RDiv(One, RMul(b, dt)))

\* corrected acceleration
CorrectedAcc(pAcc, inc, b, dt) ==
  VAdd(pAcc, inc, RDiv(One, RMul(RMul(b, dt), dt)))

\* mutant: the cache replaced in every iteration
CachedInertia_Always(old, converged, rhs1) == rhs1

\* the inertia cache after a correctStep: rhs1 is what
\* model.getRHSvector(1,true) returned (<<>> is NULL)
CachedInertia(old, converged, rhs1) == IF converged THEN rhs1 ELSE old

\* mutant: half the increment added to the displacement
CorrectedDis_Damped(dis, ls) == VAdd(dis, ls, Half)

\* corrected displacement
CorrectedDis(dis, ls) == VAdd(dis, ls, One)

\* NewmarkNLSIM::correctStep; ls is the increment held in linsol, updOk the
\* result of model.updateConfiguration
correctStep(ls, converged, rhs1, updOk) ==
  /\ Stepping
  /\ nlOp' = "correctStep"
  /\ nlArg' = BoolStr(converged)
  /\ nOps' = nOps + 1
  /\ linsol' = ls
  /\ IF TooShort(solution)
     THEN /\ nlRet' = "false"
          /\ UNCHANGED <<solution, incDis, Finert, simModel>>
     ELSE LET iD == 1
              iA == Len(solution)
              iV == Len(solution) - 1
              inc == VAdd(incDis, ls, One)
              dis == CorrectedDis(solution[iD], ls)
          IN  /\ incDis' = inc
              /\ solution' = [solution EXCEPT
                   ![iD] = dis,
                   ![iV] = CorrectedVel(predVel, inc, beta, gamma, param.dt),
                   ![iA] = CorrectedAcc(predAcc, inc, beta, param.dt)]
              /\ Finert' = CachedInertia(Finert, converged, rhs1)
              /\ simModel' = [simModel EXCEPT !.config = dis]
              /\ nlRet' = BoolStr(updOk)
  /\ UNCHANGED <<predVel, predAcc, beta, gamma, param, nPred, predDis>>
  /\ UNCHANGED notNLSIM

NextNLSIM ==
  \/ \E isNS \in BOOLEAN, attr \in AlphaAttrs, ok \in BOOLEAN :
       parse(isNS, attr, ok)
  \/ \E nSol \in 0..MaxSol, nSols \in {0, 3} : init(nSol, nSols)
  \/ \E updateTime \in BOOLEAN : advanceStep(updateTime)
  \/ finalizeRHSvector
  \/ predictStep
  \/ \E ls \in LinsolVecs, converged \in BOOLEAN, rhs1 \in InertiaPtrs,
        updOk \in BOOLEAN :
       correctStep(ls, converged, rhs1, updOk)

\* ------------------------------------------------------------------------
\* SIMSolver::solveProblem
\* ------------------------------------------------------------------------
\* The solver S1 and the exporter are collaborators: what their calls
\* return is an input of the step in which they are called.  A call is
\* logged as [call, ok].
Call(name, ok) == [call |-> name, ok |-> ok]

\* saveState(geoBlk,nBlock,newMesh,infile,saveRes): <<result, calls>>; o
\* holds what saveModel, saveStep and dumpTimeLevel return if called and
\* whether the restart data are dumped with the time level
SaveState(newMesh, saveRes, exporter, o) ==
  IF newMesh /\ ~o.saveModel
  THEN <<FALSE, <<Call("saveModel", FALSE)>> >>
  ELSE LET c1 == IF newMesh THEN <<Call("saveModel", TRUE)>> ELSE <<>>
       IN  IF saveRes /\ ~o.saveStep
           THEN <<FALSE, c1 \o <<Call("saveStep", FALSE)>> >>
           ELSE LET c2 == IF saveRes
                          THEN c1 \o <<Call("saveStep", TRUE)>> ELSE c1
                IN  IF saveRes /\ exporter
                    THEN <<o.dump,
                           c2 \o <<Call(IF o.withData
                                        THEN "dumpTimeLevel(data)"
                                        ELSE "dumpTimeLevel", o.dump)>> >>
                    ELSE <<TRUE, c2>>

\* what the collaborators of saveState return
SaveOutcomes ==
  [saveModel : BOOLEAN, saveStep : BOOLEAN, dump : BOOLEAN,
   withData : BOOLEAN]

\* advanceStep(): <<result, the TimeStep afterwards, calls>>; s1 is what
\* S1.advanceStep returns if called
AdvanceStep(tp, s1) ==
  IF increment(tp)[2]
  THEN <<s1, increment(tp)[1],
         <<Call("increment", TRUE), Call("S1.advanceStep", s1)>> >>
  ELSE <<FALSE, increment(tp)[1], <<Call("increment", FALSE)>> >>

\* mutant: a failed save of the diverged step not told apart
DivergedCode_Three(saveDivergedSol, saved) == 3

\* the value returned when solveStep failed; saved is what S1.saveStep
\* returns if called
DivergedCode(saveDivergedSol, saved) ==
  IF saveDivergedSol /\ ~saved THEN 4 ELSE 3

\* a driver about to run solveProblem
InitDriver ==
  /\ restartArgs = "idle"
  /\ restartRet = <<>>
  /\ driver \in [pc : {"start"}, ret : {-1}, log : {<<>>}, tp : [step : {0}],
                  saveDivergedSol : BOOLEAN, exporter : BOOLEAN,
                  saveInit : BOOLEAN]

\* solveProblem up to its time step loop: the initial saveState and the
\* heading
solveProblem_begin(o) ==
  /\ driver # <<>>
  /\ driver.pc = "start"
  /\ LET r == SaveState(TRUE, driver.saveInit, driver.exporter, o)
         log == <<Call("saveState", r[1])>> \o r[2]
     IN  driver' = IF ~r[1]
                   THEN [driver EXCEPT !.pc = "done", !.ret = 2, !.log = log]
                   ELSE [driver EXCEPT !.pc = "loop",
                           !.log = Append(log, Call("printHeading", TRUE))]
  /\ UNCHANGED <<restartArgs, restartRet>>
  /\ UNCHANGED notSolver

\* one pass of the time step loop of solveProblem: s1 and solved are what
\* S1.advanceStep and S1.solveStep return if called, saved what S1.saveStep
\* returns for the diverged step
solveProblem_step(s1, solved, saved, o) ==
  /\ driver # <<>>
  /\ driver.pc = "loop"
  /\ LET adv == AdvanceStep(driver.tp, s1)
         st == SaveState(FALSE, TRUE, driver.exporter, o)
         l1 == driver.log \o adv[3]
         l2 == Append(l1, Call("solveStep", solved))
     IN  driver' =
           IF ~adv[1]
           THEN [driver EXCEPT !.pc = "done", !.ret = 0, !.tp = adv[2],
                               !.log = l1]
           ELSE IF ~solved
           THEN [driver EXCEPT
                   !.pc = "done", !.tp = adv[2],
                   !.ret = DivergedCode(driver.saveDivergedSol, saved),
                   !.log = IF driver.saveDivergedSol
                           THEN Append(l2, Call("saveStep", saved))
                           ELSE l2]
           ELSE IF ~st[1]
           THEN [driver EXCEPT
                   !.pc = "done", !.ret = 4, !.tp = adv[2],
                   !.log = Append(l2, Call("saveState", FALSE)) \o st[2]]
           ELSE [driver EXCEPT
                   !.tp = adv[2],
                   !.log = (Append(l2, Call("saveState", TRUE)) \o st[2])
                           \o <<Call("pollControllerFifo", TRUE)>>]
  /\ UNCHANGED <<restartArgs, restartRet>>
  /\ UNCHANGED notSolver

NextDriver ==
  \/ \E o \in SaveOutcomes : solveProblem_begin(o)
  \/ \E s1 \in BOOLEAN, solved \in BOOLEAN, saved \in BOOLEAN,
        o \in SaveOutcomes :
       solveProblem_step(s1, solved, saved, o)

\* ------------------------------------------------------------------------
\* NewmarkMats
\* ------------------------------------------------------------------------
\* utl::matrix::multiply(c)
MScale(X, c) == [i \in 1..Len(X) |-> [j \in 1..Len(X[i]) |-> RMul(X[i][j], c)]]

\* utl::matrix::add(Y,c): X += c*Y
MAdd(X, Y, c) ==
  [i \in 1..Len(X) |-> [j \in 1..Len(X[i]) |->
     RAdd(X[i][j], RMul(c, Y[i][j]))]]

ZeroMat(n) == [i \in 1..n |-> [j \in 1..n |-> Zero]]

\* the element matrices an integrand delivers: c*(2i+j)
ElMatrices ==
  {[i \in 1..NDofs |-> [j \in 1..NDofs |-> <<c * (2 * i + j), 1>>]] :
     c \in {-1, 1, 2}}

\* the values of the constructor arguments
RayleighVals == {Zero, Half}

BVals == {<<-1, 4>>, Zero, Quarter}

CVals == {Half, One}

\* the time step sizes handed to setStepSize
StepSizes == {Half, <<2, 1>>}

\* the right-hand-side vector b[0] and the element solution vectors vec
\* an integrand delivers: two solution vectors only, or displacement,
\* velocity (1,2,...) and acceleration (2,4,...)
ElLoads ==
  {[F |-> ZeroVec(NDofs), vec |-> <<ZeroVec(NDofs), ZeroVec(NDofs)>>],
   [F |-> [i \in 1..NDofs |-> One],
    vec |-> <<ZeroVec(NDofs), [i \in 1..NDofs |-> <<i, 1>>],
              [i \in 1..NDofs |-> <<2 * i, 1>>]>>]}

\* no NewmarkMats object is in use
IdleMats ==
  /\ elMats = <<>>
  /\ matsOp = "none"
  /\ matsRet = <<>>
  /\ nRhs = 0

\* mutant: the test on b reversed
SlvDisp_Positive(b) == RLess(Zero, b)

\* whether displacement increments are the primary unknowns
SlvDisp(b) == RLess(b, Zero)

\* NewmarkMats::NewmarkMats
NewmarkMats(a1, a2, b, c, generalizedAlpha) ==
  LET alpha == RSub(c, RAbs(b))
  IN  [alpha1 |-> a1,
       alpha2 |-> a2,
       alpha_m |-> IF generalizedAlpha THEN RAbs(b) ELSE One,
       alpha_f |-> IF generalizedAlpha THEN c ELSE One,
       beta |-> IF generalizedAlpha
                THEN RMul(RMul(Quarter, RSub(One, alpha)), RSub(One, alpha))
                ELSE RAbs(b),
       gamma |-> IF generalizedAlpha THEN RSub(Half, alpha) ELSE c,
       slvDisp |-> SlvDisp(b),
       isPredictor |-> TRUE,
       h |-> Zero,
       A |-> <<>>,
       b |-> <<>>,
       vec |-> <<>>,
       argB |-> b,
       argC |-> c,
       argGA |-> generalizedAlpha]

InitMats ==
  /\ \E a1 \in RayleighVals, a2 \in RayleighVals, b \in BVals, c \in CVals,
        generalizedAlpha \in BOOLEAN :
       elMats = NewmarkMats(a1, a2, b, c, generalizedAlpha)
  /\ matsOp = "new"
  /\ matsRet = <<>>
  /\ nRhs = 0

\* NewmarkMats::setStepSize
setStepSize(dt, iter) ==
  /\ elMats' = [elMats EXCEPT !.h = dt, !.isPredictor = (iter = 0)]
  /\ matsOp' = "setStepSize"
  /\ matsRet' = <<>>
  /\ UNCHANGED nRhs
  /\ UNCHANGED notMats

\* the integrand rebuilds the element matrices: A[0] sized and zeroed,
\* A[1] the mass matrix, A[2] the stiffness matrix, b[0] the external minus
\* the internal forces, vec the element solution vectors
rebuild(M, K, F, vec) ==
  /\ elMats' = [elMats EXCEPT !.A = <<ZeroMat(NDofs), M, K>>, !.b = <<F>>,
                              !.vec = vec]
  /\ matsOp' = "rebuild"
  /\ matsRet' = <<>>
  /\ nRhs' = 0
  /\ UNCHANGED notMats

\* the Newton matrix as getNewtonMatrix computes it
NewtonMatrix(m) ==
  LET N1 == m.A[2]
      N2 == MScale(N1, RAdd(m.alpha_m,
                 RMul(RMul(RMul(m.alpha_f, m.alpha1), m.gamma), m.h)))
      N3 == MAdd(N2, m.A[3],
                 RMul(RMul(m.alpha_f,
                           RAdd(RMul(m.alpha2, m.gamma), RMul(m.beta, m.h))),
                      m.h))
  IN  IF m.slvDisp
      THEN MScale(N3, RDiv(One, RMul(RMul(m.beta, m.h), m.h)))
      ELSE N3

\* NewmarkMats::getNewtonMatrix, called on rebuilt element matrices; the
\* result is A.front()
getNewtonMatrix ==
  /\ elMats.A # <<>>
  /\ elMats' = [elMats EXCEPT !.A[1] = NewtonMatrix(elMats)]
  /\ matsOp' = "getNewtonMatrix"
  /\ matsRet' = <<elMats'.A[1]>>
  /\ UNCHANGED nRhs
  /\ UNCHANGED notMats

\* utl::matrix operator*(vector)
MatVec(X, y) ==
  [i \in 1..Len(X) |-> RSum([j \in 1..Len(y) |-> RMul(X[i][j], y[j])], Len(y))]

\* b.front() as getRHSVector leaves it
RHSVector(m) ==
  IF m.A # <<>> /\ Len(m.vec) > 2
  THEN LET ia == Len(m.vec)
           iv == Len(m.vec) - 1
           dF1 == VAdd(m.b[1], MatVec(m.A[2], m.vec[ia]), <<-1, 1>>)
           dF2 == IF RLess(Zero, m.alpha1)
                  THEN VAdd(dF1, MatVec(m.A[2], m.vec[iv]), RNeg(m.alpha1))
                  ELSE dF1
       IN  IF RLess(Zero, m.alpha2)
           THEN VAdd(dF2, MatVec(m.A[3], m.vec[iv]), RNeg(m.alpha2))
           ELSE dF2
  ELSE m.b[1]

\* NewmarkMats::getRHSVector, called on rebuilt element matrices; the
\* result is b.front()
getRHSVector ==
  /\ elMats.A # <<>>
  /\ nRhs < MaxRhs
  /\ elMats' = [elMats EXCEPT !.b[1] = RHSVector(elMats)]
  /\ matsOp' = "getRHSVector"
  /\ matsRet' = <<elMats'.b[1]>>
  /\ nRhs' = nRhs + 1
  /\ UNCHANGED notMats

NextMats ==
  \/ \E dt \in StepSizes, iter \in 0..1 : setStepSize(dt, iter)
  \/ \E M \in ElMatrices, K \in ElMatrices, load \in ElLoads :
       rebuild(M, K, load.F, load.vec)
  \/ getNewtonMatrix
  \/ getRHSVector

\* ------------------------------------------------------------------------
\* ASMu3D: the LR spline of the patch
\* ------------------------------------------------------------------------
\* The geometry library's spline is a chain of nBasis - order + 1 elements
\* in the first parameter direction: basis function i lives on the
\* elements max(1,i-order+1)..min(nEl,i).
Orders == {2, 3}

\* the value w of the two neighbours of a basis function of order 3 at its
\* Greville point (the function itself has 1-2w)
Weights == {<<1, 8>>, Quarter}

Max(a, b) == IF a > b THEN a ELSE b

Min(a, b) == IF a < b THEN a ELSE b

\* lrspline->nElements()
NEl(sp) == sp.nBasis - sp.order + 1

\* the elements in the support of basis function b
SupportOf(sp, b) == Max(1, b - sp.order + 1)..Min(NEl(sp), b)

\* the element containing the Greville point of basis function i
\* (lrspline->getElementContaining)
ElementContaining(sp, i) ==
  IF sp.order = 2 THEN Min(i, NEl(sp))
  ELSE Min(Max(1, i - 1), NEl(sp))

\* the ids (from 1) of the basis functions in lrspline->getElement(iel)->
\* support(), in the order the library lists them
ElementSupport(sp, iel) ==
  LET asc == [k \in 1..sp.order |-> iel + k - 1]
  IN  IF sp.reversed THEN [k \in 1..sp.order |-> asc[sp.order + 1 - k]]
      ELSE asc

\* the value of basis function f at the Greville point of basis function i
BasisValue(sp, f, i) ==
  IF sp.order = 2 \/ i = 1 \/ i = sp.nBasis
  THEN (IF f = i THEN One ELSE Zero)
  ELSE IF f = i THEN RSub(One, RMul(<<2, 1>>, sp.w))
  ELSE IF f = i - 1 \/ f = i + 1 THEN sp.w
  ELSE Zero

\* lrspline->computeBasis at the Greville point of basis function i:
\* the values of the functions of the element, listed as support() does
ComputeBasis(sp, i) ==
  LET ids == ElementSupport(sp, ElementContaining(sp, i))
  IN  [k \in 1..Len(ids) |-> BasisValue(sp, ids[k], i)]

Splines ==
  {sp \in [nBasis : 2..MaxBasis, order : Orders, w : Weights,
            reversed : BOOLEAN, rational : BOOLEAN] :
     /\ sp.nBasis >= sp.order
     /\ sp.order = 2 => sp.w = Quarter}

\* ------------------------------------------------------------------------
\* SparseMatrix::solve and DenseMatrix::solve
\* ------------------------------------------------------------------------
\* a sequence with its entries computed
Seq1(f) == f \o <<>>

\* a sequence of sequences with its entries computed
Seq2(f) == [i \in 1..Len(f) |-> Seq1(f[i])] \o <<>>

\* column c of the matrix M cleared with the pivot row p, which goes to
\* row c
Reduce(M, c, p) ==
  CHOOSE R \in
    {Seq2([i \in 1..Len(M) |->
        IF i = c THEN prow
        ELSE LET row == IF i = p THEN M[c] ELSE M[i]
             IN  IF row[c] = Zero THEN row
                 ELSE [j \in 1..Len(row) |->
                         RSub(row[j], RMul(row[c], prow[j]))]]) :
       prow \in {Seq1([j \in 1..Len(M[p]) |-> RDiv(M[p][j], M[p][c])])}} :
    TRUE

\* elimination with row pivoting from column c on: <<>> for a singular
\* matrix, else <<R>> with the unit matrix in the first Len(M) columns
RECURSIVE Eliminate(_, _)
Eliminate(M, c) ==
  IF c > Len(M) THEN <<M>>
  ELSE LET piv == {r \in c..Len(M) : M[r][c] # Zero}
       IN  IF piv = {} THEN <<>>
           ELSE Eliminate(Reduce(M, c, CHOOSE r \in piv :
                                         \A q \in piv : r <= q), c + 1)

\* solve(B): B holds Len(B)/n right-hand sides one after the other; <<>>
\* when the matrix is singular (solve returns false), else <<x>> with the
\* solutions in the places of their right-hand sides
Solve(X, B) ==
  CHOOSE x \in
    {IF R = <<>> THEN <<>>
     ELSE <<Seq1([k \in 1..Len(B) |->
                   R[1][((k - 1) % Len(X)) + 1]
                       [Len(X) + ((k - 1) \div Len(X)) + 1]])>> :
       R \in {Eliminate(
                Seq2([i \in 1..Len(X) |->
                   X[i] \o [r \in 1..(Len(B) \div Len(X)) |->
                              B[(r - 1) * Len(X) + i]]]), 1)}} :
    TRUE

\* ------------------------------------------------------------------------
\* ASMu3D::regularInterpolation
\* ------------------------------------------------------------------------
\* A Matrix is [nr, nc, val] with val[r][c]; a spline returned by a
\* recovery method is [dim, coefs], coefs being the control points as
\* handed to setControlPoints, and <<>> is nullptr.

\* mutant: rational splines not refused
Unsupported_Never(sp) == FALSE

\* the spline is refused
Unsupported(sp) == sp.rational

\* the sanity check on the array sizes fails
Mismatching(nBasis, nu, nv, nw, nc) ==
  nu # nBasis \/ nv # nBasis \/ nw # nBasis \/ nc # nBasis

\* StdVector B(Matrix(points,true)): the transposed matrix, column by
\* column, that is one field after the other
FieldVectors(points) ==
  Seq1([k \in 1..(points.nr * points.nc) |->
     points.val[((k - 1) \div points.nc) + 1][((k - 1) % points.nc) + 1]])

\* the A-matrix: row i holds the basis functions evaluated at point
\* upar[i], each in the column of its id
InterpolationMatrix(sp, upar) ==
  Seq2([i \in 1..sp.nBasis |-> [c \in 1..sp.nBasis |->
     LET ids == ElementSupport(sp, ElementContaining(sp, upar[i]))
         vals == ComputeBasis(sp, upar[i])
         ks == {k \in 1..Len(ids) : ids[k] = c}
     IN  IF ks = {} THEN Zero ELSE vals[CHOOSE k \in ks : TRUE]]])

\* mutant: the solution read component by component instead of field by
\* field
Interleave_Transposed(B, nBasis, nr, nc) ==
  [k \in 1..(nBasis * nr) |->
     LET i == (k - 1) \div nr
         j == (k - 1) % nr
     IN  B[1 + i * nr + j]]

\* back to interleaved data: the control points handed to setControlPoints
Interleave(B, nBasis, nr, nc) ==
  [k \in 1..(nBasis * nr) |->
     LET i == (k - 1) \div nr
         j == (k - 1) % nr
     IN  B[1 + j * nc + i]]

\* the method: [res, nBasisEvals, solve]
RegularInterpolation(sp, upar, vpar, wpar, points) ==
  IF Unsupported(sp)
  THEN [res |-> <<>>, nBasisEvals |-> 0, solve |-> "not called"]
  ELSE IF Mismatching(sp.nBasis, Len(upar), Len(vpar), Len(wpar), points.nc)
  THEN [res |-> <<>>, nBasisEvals |-> 0, solve |-> "not called"]
  ELSE CHOOSE r \in
         {IF B = <<>>
          THEN [res |-> <<>>, nBasisEvals |-> sp.nBasis, solve |-> "failed"]
          ELSE [res |-> <<[dim |-> points.nr,
                           coefs |-> Interleave(B[1], sp.nBasis, points.nr,
                                                points.nc)]>>,
                nBasisEvals |-> sp.nBasis, solve |-> "ok"] :
            B \in {Solve(InterpolationMatrix(sp, upar),
                         FieldVectors(points))}} : TRUE

\* the Greville parameters of the basis functions, in their order; a
\* parameter is named by the basis function whose Greville point it is
Greville(sp) == [i \in 1..sp.nBasis |-> i]

\* mutant: prm not cleared before the values are pushed
GetGrevilleParameters_Appended(sp, prm, dir) ==
  IF sp = <<>> \/ dir < 0 \/ dir > 2 THEN [ret |-> FALSE, prm |-> prm]
  ELSE [ret |-> TRUE, prm |-> prm \o Greville(sp)]

\* getGrevilleParameters(prm,dir): [ret, prm], prm as the call leaves it;
\* sp = <<>> stands for a patch without a spline
GetGrevilleParameters(sp, prm, dir) ==
  IF sp = <<>> \/ dir < 0 \/ dir > 2 THEN [ret |-> FALSE, prm |-> prm]
  ELSE [ret |-> TRUE, prm |-> <<>> \o Greville(sp)]

\* parameter arrays of n entries: the Greville points in their order, and
\* an array naming the first point twice
ParArrays(sp, n) ==
  {[i \in 1..n |-> ((i - 1) % sp.nBasis) + 1],
   [i \in 1..n |-> Max(1, Min(i, sp.nBasis) - 1)]}

\* arrays for the second and third parameter direction
SizesFrom(n) == {n, n + 1}

\* control point values c(i,j) of a field of nr components on n functions
CtrlFields(n, nr) ==
  {[i \in 1..n |-> [j \in 1..nr |-> <<a * i * i + 3 * j, 1>>]] :
     a \in {-1, 1}}

\* the field with control points c on the spline, sampled at the Greville
\* points: component j in row j, Greville point q in column q
Sampled(sp, c, nr) ==
  [nr |-> nr, nc |-> sp.nBasis,
   val |-> Seq2([j \in 1..nr |-> [q \in 1..sp.nBasis |->
     RSum([f \in 1..sp.nBasis |-> RMul(BasisValue(sp, f, q), c[f][j])],
          sp.nBasis)]])]

\* a matrix holding c(i,j) in row j and column i
Raw(c, n, nr) ==
  [nr |-> nr, nc |-> n, val |-> [j \in 1..nr |-> [i \in 1..n |-> c[i][j]]]]

\* the sizes tried around the number of basis functions
SizesNear(n) == {k \in {n - 1, n, n + 1} : k >= 0}

\* the matrices of sample values handed to regularInterpolation
PointMatrices(sp) ==
  UNION {{Raw(c, n, nr) : c \in CtrlFields(n, nr)} :
           n \in SizesNear(sp.nBasis), nr \in 1..MaxCmp}
  \cup UNION {{Sampled(sp, c, nr) : c \in CtrlFields(sp.nBasis, nr)} :
                nr \in 1..MaxCmp}

\* ------------------------------------------------------------------------
\* ASMu3D::scRecovery
\* ------------------------------------------------------------------------
\* the elements of a set in ascending order
RECURSIVE Sorted(_)
Sorted(S) ==
  IF S = {} THEN <<>>
  ELSE LET lo == CHOOSE x \in S : \A y \in S : x <= y
       IN  <<lo>> \o Sorted(S \ {lo})

\* b->getExtendedSupport(): the union of the supports of all functions
\* that overlap basis function b
ExtendedSupport(sp, b) ==
  UNION {SupportOf(sp, f) : f \in {g \in 1..sp.nBasis :
                               SupportOf(sp, g) \cap SupportOf(sp, b) # {}}}

\* GaussQuadrature::getCoord(n) has no points to give
NoGauss(n) == n < 1

\* mutant: the extended support only for functions with too few elements
SupportElements_Heuristic(sp, b, ng, nPol) ==
  IF Cardinality(SupportOf(sp, b)) * ng * ng * ng < nPol
  THEN Sorted(ExtendedSupport(sp, b))
  ELSE Sorted(SupportOf(sp, b))

\* the elements elStart..elEnd entering the local system of function b
SupportElements(sp, b, ng, nPol) == Sorted(ExtendedSupport(sp, b))

\* the elements visited by the element loop: all of els, or those up to
\* the first one on which evalSolution fails
Visited(els, evalFail) ==
  LET bad == {k \in 1..Len(els) : els[k] = evalFail}
  IN  IF bad = {} THEN els
      ELSE SubSeq(els, 1, CHOOSE k \in bad : \A l \in bad : k <= l)

\* the local system of basis function b after A.solve(B): row ii holds
\* coefficient ii of the fitted polynomial of every component
LocalSolution(fit, b, nPol, nCmp) ==
  [ii \in 1..nPol |-> [l \in 1..nCmp |-> RMul(<<ii, 1>>, fit[b][l])]]

\* the projected field at the Greville point: sValues(l,ip) = B(1,l)
GrevilleValue(B, nCmp) == Seq1([l \in 1..nCmp |-> B[1][l]])

\* the local projection of basis function b: [b, els, status, value]
LocalFit(sp, b, in) ==
  LET ng == sp.order - in.m
      nPol == (ng + 1) * (ng + 1) * (ng + 1)
      els == SupportElements(sp, b, ng, nPol)
      seen == Visited(els, in.evalFail)
      B == LocalSolution(in.fit, b, nPol, in.nCmp)
  IN  [b |-> b, els |-> seen,
       status |-> IF \E k \in 1..Len(els) : els[k] = in.evalFail
                  THEN "evalFailed"
                  ELSE IF in.solveFail = b THEN "solveFailed" ELSE "solved",
       value |-> GrevilleValue(B, in.nCmp)]

\* mutant: a failed local solve does not end the loop
Aborts_EvalOnly(status) == status = "evalFailed"

\* the loop over the basis functions is left with nullptr
Aborts(status) == status # "solved"

\* the loop over all Greville points from basis function b on
RECURSIVE LocalFits(_, _, _, _)
LocalFits(sp, b, in, log) ==
  IF b > sp.nBasis THEN log
  ELSE LET fit == LocalFit(sp, b, in)
       IN  IF Aborts(fit.status) THEN Append(log, fit)
           ELSE LocalFits(sp, b + 1, in, Append(log, fit))

\* sValues(l,ip) = B(1,l)
SValues(sp, nCmp, log) ==
  [nr |-> nCmp, nc |-> sp.nBasis,
   val |-> Seq2([l \in 1..nCmp |-> [ip \in 1..sp.nBasis |->
                   log[ip].value[l]]])]

\* the method: [res, locals, interp]
ScRecovery(sp, in) ==
  IF NoGauss(sp.order - in.m)
  THEN [res |-> <<>>, locals |-> <<>>, interp |-> <<>>]
  ELSE CHOOSE s \in
         {IF \E d \in 1..3 : ~gpar[d].ret
          THEN [res |-> <<>>, locals |-> <<>>, interp |-> <<>>]
          ELSE CHOOSE t \in
             {IF \E k \in 1..Len(log) : Aborts(log[k].status)
              THEN [res |-> <<>>, locals |-> log, interp |-> <<>>]
              ELSE CHOOSE u \in
                 {[res |-> r.res, locals |-> log,
                   interp |-> <<[nBasisEvals |-> r.nBasisEvals,
                                 solve |-> r.solve,
                                 sizes |-> <<Len(gpar[1].prm),
                                             Len(gpar[2].prm),
                                             Len(gpar[3].prm)>>]>>] :
                    r \in {RegularInterpolation(sp, gpar[1].prm,
                              gpar[2].prm, gpar[3].prm,
                              SValues(sp, in.nCmp, log))}} :
                 TRUE :
                log \in {LocalFits(sp, 1, in, <<>>)}} : TRUE :
            gpar \in {Seq1([d \in 1..3 |->
                               GetGrevilleParameters(sp, <<>>, d - 1)])}} :
         TRUE

\* integrand.derivativeOrder()
DerivativeOrders == 0..2

\* the integrands: derivative order m, nCmp fields, the element on which
\* evalSolution fails and the basis function whose local system is
\* singular (0 for none), and the fitted values
Integrands(sp) ==
  UNION {[m : DerivativeOrders, nCmp : {nCmp}, evalFail : 0..NEl(sp),
          solveFail : 0..sp.nBasis, fit : CtrlFields(sp.nBasis, nCmp)] :
           nCmp \in 1..MaxCmp}

\* ------------------------------------------------------------------------
\* ASMu3D::faceL2projection
\* ------------------------------------------------------------------------
\* A patch face is a strip of elements: element iel (from 1) has the face
\* nodes iel-1 and iel (from 0) and one node off the face, MNPC = -1.  An
\* element is "ok", has a negative parametric area ("negArea"), has no
\* coordinates ("noCoords") or a vanishing Jacobian ("degenerate").  The
\* face lists its elements in face.MLGE (from 0), in the order of the loop.
FaceEdges == {"WEST", "TOP", "NONE"}

\* the strips of nEl elements with at most one element that is not "ok"
ElementKinds(nEl) ==
  {[ie \in 1..nEl |-> IF ie = bad THEN kind ELSE "ok"] :
     bad \in 0..nEl, kind \in {"negArea", "noCoords", "degenerate"}}

\* the orders in which the element loop may meet n elements
ElementOrders(n) ==
  {[q \in 1..n |-> q], [q \in 1..n |-> n + 1 - q],
   [q \in 1..n |-> (q % n) + 1]}

\* face.MNPC[ie], ie (from 1) being the place of the element in face.MLGE
MNPC(face, ie) == <<face.MLGE[ie], 1 + face.MLGE[ie], -1>>

\* the abscissae of the quadrature rule in use, on [0,1]
GaussPoints(nGauss) ==
  IF nGauss = 1 THEN <<Half>> ELSE <<Quarter, <<3, 4>>>>

\* wg
GaussWeights(nGauss) == IF nGauss = 1 THEN <<(<<2, 1>>)>> ELSE <<One, One>>

\* the basis function values N of an element at abscissa x
FaceBasis(x) == <<RSub(One, x), x, Zero>>

\* values.getValue(X): component k (from 0) at the point X
FaceValue(x, k) == RAdd(x, <<k, 1>>)

\* dA of element ie
FaceArea(kind) == IF kind = "negArea" THEN <<-1, 1>> ELSE One

\* utl::Jacobian of element ie
FaceJacobian(kind) == IF kind = "degenerate" THEN Zero ELSE One

\* the local index of node inod among the nodes nod of an element, 0 if
\* it is not one of them
LocalIndex(nod, inod) ==
  LET ks == {k \in 1..Len(nod) : nod[k] = inod}
  IN  IF ks = {} THEN 0 ELSE CHOOSE k \in ks : TRUE

\* the integration points that contribute: [ie, nod, N, dJxW, x] for the
\* elements at the places 1..last of face.MLGE, nGauss x nGauss points
\* each, singular points skipped
FacePoints(face, nGauss, last) ==
  LET xg == GaussPoints(nGauss)
      wg == GaussWeights(nGauss)
      all == [q \in 1..(last * nGauss * nGauss) |->
                LET ie == ((q - 1) \div (nGauss * nGauss)) + 1
                    iel == 1 + face.MLGE[ie]
                    j == ((q - 1) % (nGauss * nGauss)) \div nGauss + 1
                    i == ((q - 1) % nGauss) + 1
                IN  [ie |-> ie,
                     nod |-> Seq1([il \in 1..3 |-> 1 + MNPC(face, ie)[il]]),
                     N |-> FaceBasis(xg[i]),
                     dJxW |-> RMul(RMul(FaceArea(face.kinds[iel]),
                                        RMul(wg[i], wg[j])),
                                   FaceJacobian(face.kinds[iel])),
                     x |-> RAdd(<<iel - 1, 1>>, xg[i])]]
  IN  SelectSeq(Seq1(all), LAMBDA pt : pt.dJxW # Zero)

\* A(ig,jg) += N[il]*N[jl]*dJxW over the points, for the local nodes il
\* and jl with a global index ig, jg > 0
FaceMatrix(pts, n) ==
  Seq2([ig \in 1..n |-> [jg \in 1..n |->
     RSum([q \in 1..Len(pts) |->
            LET il == LocalIndex(pts[q].nod, ig)
                jl == LocalIndex(pts[q].nod, jg)
            IN  IF il = 0 \/ jl = 0 THEN Zero
                ELSE RMul(RMul(pts[q].N[il], pts[q].N[jl]), pts[q].dJxW)],
          Len(pts))]])

\* B(ig+k*n) += N[il]*val[k]*dJxW over the points
FaceVector(pts, n, m) ==
  Seq1([e \in 1..(n * m) |->
     RSum([q \in 1..Len(pts) |->
            LET il == LocalIndex(pts[q].nod, ((e - 1) % n) + 1)
            IN  IF il = 0 THEN Zero
                ELSE RMul(RMul(pts[q].N[il],
                               FaceValue(pts[q].x, (e - 1) \div n)),
                          pts[q].dJxW)], Len(pts))])

\* the first place of face.MLGE at which the assembly loop gives up, 0
\* for none
FirstBad(face) ==
  LET bad == {ie \in 1..Len(face.MLGE) :
                face.kinds[1 + face.MLGE[ie]] \in {"negArea", "noCoords"}}
  IN  IF bad = {} THEN 0 ELSE CHOOSE ie \in bad : \A o \in bad : ie <= o

\* result after solve(B) gave B: m rows of n control-point values
FaceResult(old, B, n, m) ==
  IF B # <<>>
  THEN [i \in 1..m |-> [c \in 1..n |-> B[1][(i - 1) * n + c]]]
  ELSE old

\* the method: [ret, result, solve, elements, A, B]; elements counts the
\* elements the assembly loop entered, A and B are the system assembled
FaceL2projection(face, m, nGauss, old) ==
  LET n == Len(face.MLGE) + 1
      bad == FirstBad(face)
  IN  IF NoGauss(nGauss) \/ face.edg = "NONE"
      THEN [ret |-> FALSE, result |-> old, solve |-> "not called",
            elements |-> 0, A |-> <<>>, B |-> <<>>]
      ELSE IF bad # 0
      THEN CHOOSE r \in
             {[ret |-> FALSE, result |-> old, solve |-> "not called",
               elements |-> bad, A |-> FaceMatrix(pts, n),
               B |-> FaceVector(pts, n, m)] :
                pts \in {FacePoints(face, nGauss, bad - 1)}} : TRUE
      ELSE CHOOSE r \in
             {[ret |-> x # <<>>,
               result |-> FaceResult(old, x, n, m),
               solve |-> IF x # <<>> THEN "ok" ELSE "failed",
               elements |-> Len(face.MLGE), A |-> sys[1], B |-> sys[2]] :
                <<sys, x>> \in
                  {<<y, Solve(y[1], y[2])>> :
                     y \in {<<FaceMatrix(pts, n),
                              FaceVector(pts, n, m)>> :
                              pts \in {FacePoints(face, nGauss,
                                                  Len(face.MLGE))}}}} :
             TRUE

\* the patches assembled: the method looks neither at the weights nor at
\* the values of the volume basis
AssemblyPatches ==
  {sp \in Splines : /\ ~sp.rational /\ ~sp.reversed /\ sp.w = Quarter
                    /\ NEl(sp) <= MaxAssemblyEl}

\* the patches whose faces are projected onto: the elements, the nodes and
\* the geometry the method works on are those of the face
FacePatches == {sp \in AssemblyPatches : sp.nBasis = sp.order + 1}

\* the Dirichlet faces
Faces ==
  UNION {[kinds : ElementKinds(nEl), edg : FaceEdges,
          MLGE : {[q \in 1..nEl |-> o[q] - 1] : o \in ElementOrders(nEl)}] :
           nEl \in 1..MaxFaceEl}

\* what the caller's result array holds before the call
OldResults == {<<>>, << <<(<<7, 1>>)>> >>}

\* projectSolution: [res, interp]; the secondary solution is the spline
\* field integr.fit, which evalSolution samples unless integr.evalFail
ProjectSolution(sp, integr) ==
  CHOOSE s \in
    {IF \E d \in 1..3 : ~gpar[d].ret THEN [res |-> <<>>, interp |-> <<>>]
     ELSE IF integr.evalFail THEN [res |-> <<>>, interp |-> <<>>]
     ELSE CHOOSE u \in
            {[res |-> r.res,
              interp |-> <<[nBasisEvals |-> r.nBasisEvals,
                            solve |-> r.solve,
                            sizes |-> <<Len(gpar[1].prm), Len(gpar[2].prm),
                                        Len(gpar[3].prm)>>]>>] :
               r \in {RegularInterpolation(sp, gpar[1].prm, gpar[2].prm,
                         gpar[3].prm,
                         Sampled(sp, integr.fit, integr.nCmp))}} : TRUE :
       gpar \in {Seq1([d \in 1..3 |->
                          GetGrevilleParameters(sp, <<>>, d - 1)])}} : TRUE

\* the integrands projected
ProjectedFields(sp) ==
  UNION {[nCmp : {nCmp}, evalFail : BOOLEAN,
          fit : CtrlFields(sp.nBasis, nCmp)] : nCmp \in 1..MaxCmp}

\* what the array passed for prm holds at the call
OldParameters == {<<>>, <<9>>, <<9, 9, 9, 9, 9, 9, 9, 9>>}

\* the directions asked for
Directions == -1..3

InitRec ==
  /\ lrspline \in Splines
  /\ recOp = "none"
  /\ recArgs = <<>>
  /\ recRes = <<>>
  /\ recLog = <<>>
  /\ result = <<>>

\* no patch is in use
IdleRec ==
  /\ lrspline = <<>>
  /\ recOp = "none"
  /\ recArgs = <<>>
  /\ recRes = <<>>
  /\ recLog = <<>>
  /\ result = <<>>

\* one recovery method is followed from a fresh patch
Fresh == recOp = "none"

regularInterpolation(upar, vpar, wpar, points) ==
  \E r \in {RegularInterpolation(lrspline, upar, vpar, wpar, points)} :
      /\ Fresh
      /\ recOp' = "regularInterpolation"
      /\ recArgs' = [upar |-> upar, vpar |-> vpar, wpar |-> wpar,
                     points |-> points]
      /\ recRes' = r.res
      /\ recLog' = [nBasisEvals |-> r.nBasisEvals, solve |-> r.solve]
      /\ UNCHANGED <<lrspline, result>>
      /\ UNCHANGED notRec

scRecovery(integrand) ==
  \E r \in {ScRecovery(lrspline, integrand)} :
      /\ Fresh
      /\ recOp' = "scRecovery"
      /\ recArgs' = integrand
      /\ recRes' = r.res
      /\ recLog' = [locals |-> r.locals, interp |-> r.interp]
      /\ UNCHANGED <<lrspline, result>>
      /\ UNCHANGED notRec

projectSolution(integr) ==
  \E r \in {ProjectSolution(lrspline, integr)} :
      /\ Fresh
      /\ recOp' = "projectSolution"
      /\ recArgs' = integr
      /\ recRes' = r.res
      /\ recLog' = [interp |-> r.interp]
      /\ UNCHANGED <<lrspline, result>>
      /\ UNCHANGED notRec

getGrevilleParameters(prm, dir) ==
  \E r \in {GetGrevilleParameters(lrspline, prm, dir)} :
      /\ Fresh
      /\ recOp' = "getGrevilleParameters"
      /\ recArgs' = [prm |-> prm, dir |-> dir]
      /\ recRes' = <<r.ret>>
      /\ recLog' = [prm |-> r.prm]
      /\ UNCHANGED <<lrspline, result>>
      /\ UNCHANGED notRec

\* old is what the array passed for result holds at the call
faceL2projection(face, m, nGauss, old) ==
  \E r \in {FaceL2projection(face, m, nGauss, old)} :
      /\ Fresh
      /\ recOp' = "faceL2projection"
      /\ recArgs' = [face |-> face, m |-> m, nGauss |-> nGauss,
                     result |-> old]
      /\ recRes' = <<r.ret>>
      /\ recLog' = [solve |-> r.solve, elements |-> r.elements,
                     A |-> r.A, B |-> r.B]
      /\ result' = r.result
      /\ UNCHANGED lrspline
      /\ UNCHANGED notRec

\* ------------------------------------------------------------------------
\* ASMu3D::scRecovery: the local projection of one basis function
\* ------------------------------------------------------------------------
\* The elements elStart..elEnd are a box of SupportBox unit elements per
\* direction around the Greville point G, the geometry maps a parameter
\* point to itself, and the secondary solution is a field sigma.

\* the elements of the support per direction
SupportBox == 2

\* the concatenation of the sequences f[1], ..., f[n]
RECURSIVE Cat(_, _)
Cat(f, n) == IF n = 0 THEN <<>> ELSE Cat(f, n - 1) \o f[n]

\* x multiplied n times into 1
RECURSIVE Pow(_, _)
Pow(x, n) == IF n = 0 THEN One ELSE RMul(Pow(x, n - 1), x)

\* the index triples (i,j,k) of three nested loops, k outermost and i
\* innermost, in the order the loops visit them
Nest3(n1, n2, n3) ==
  Cat([k \in 1..n3 |->
        Cat([j \in 1..n2 |-> [i \in 1..n1 |-> <<i - 1, j - 1, k - 1>>]],
            n2)], n3)

\* mutant: the third direction running fastest
ExpandTensorGrid_ThirdFastest(in) ==
  CHOOSE out \in
    {Seq1([d \in 1..3 |-> Seq1([ip \in 1..Len(T) |-> in[d][T[ip][d] + 1]])]) :
       T \in {Cat([i \in 1..Len(in[1]) |->
                 Cat([j \in 1..Len(in[2]) |-> [k \in 1..Len(in[3]) |->
                        <<i - 1, j - 1, k - 1>>]], Len(in[2]))],
                  Len(in[1]))}} : TRUE

\* expandTensorGrid: out[d][ip] = in[d][i/j/k], ip advancing with the loops
ExpandTensorGrid(in) ==
  CHOOSE out \in
    {Seq1([d \in 1..3 |-> Seq1([ip \in 1..Len(T) |-> in[d][T[ip][d] + 1]])]) :
       T \in {Nest3(Len(in[1]), Len(in[2]), Len(in[3]))}} : TRUE

\* evalMonomials: P(ip) = x^i * y^j * z^k, ip advancing with the loops
EvalMonomials(p1, p2, p3, x, y, z) ==
  LET T == Nest3(p1, p2, p3)
  IN  Seq1([ip \in 1..Len(T) |->
         RMul(RMul(Pow(x, T[ip][1]), Pow(y, T[ip][2])), Pow(z, T[ip][3]))])

\* mutant: the monomials evaluated at the point itself
Relative_Absolute(X, G) == X

\* X[0]-G[0], X[1]-G[1], X[2]-G[2]
Relative(X, G) == [d \in 1..3 |-> RSub(X[d], G[d])]

\* the lower corner of element iel (from 1) of the box in direction d
BoxCorner(G, d, iel) ==
  LET c == IF d = 1 THEN (iel - 1) % SupportBox
           ELSE IF d = 2 THEN ((iel - 1) \div SupportBox) % SupportBox
           ELSE (iel - 1) \div (SupportBox * SupportBox)
  IN  RAdd(RSub(G[d], <<SupportBox \div 2, 1>>), <<c, 1>>)

\* getGaussPointParameters(uGP,d,ng,iel,xg)
GaussPointParameters(G, d, ng, iel) ==
  Seq1([i \in 1..ng |-> RAdd(BoxCorner(G, d, iel), GaussPoints(ng)[i])])

\* component l (from 1) of the field sigma at the point X:
\* c1 + c2*x + c3*y*z + c4*x*y*z + l
FieldValue(sigma, l, X) ==
  RAdd(RAdd(RAdd(sigma[1], RMul(sigma[2], X[1])),
            RAdd(RMul(sigma[3], RMul(X[2], X[3])),
                 RMul(sigma[4], RMul(X[1], RMul(X[2], X[3]))))),
       <<l, 1>>)

\* evalSolution(sField,integrand,gpar): the field at the points gpar
EvalSolution(sigma, nCmp, gpar) ==
  Seq2([l \in 1..nCmp |-> [ip \in 1..Len(gpar[1]) |->
          FieldValue(sigma, l, <<gpar[1][ip], gpar[2][ip], gpar[3][ip]>>)]])

\* the Gauss points of element iel as the loops meet them: the monomials
\* P and the column ig of sField, ig advancing with the loops
ElementPoints(in, ng, iel) ==
  CHOOSE pts \in
    {Seq1([ig \in 1..Len(T) |->
        LET X == <<gaussPt[1][T[ig][1] + 1], gaussPt[2][T[ig][2] + 1],
                   gaussPt[3][T[ig][3] + 1]>>
            R == Relative(X, in.G)
        IN  [iel |-> iel, P |-> EvalMonomials(ng[1] + 1, ng[2] + 1,
                                              ng[3] + 1, R[1], R[2], R[3]),
             X |-> X,
             s |-> Seq1([l \in 1..in.nCmp |-> sField[l][ig]])]]) :
       <<gaussPt, sField, T>> \in
         {<<g, EvalSolution(in.sigma, in.nCmp, ExpandTensorGrid(g)),
            Nest3(ng[1], ng[2], ng[3])>> :
            g \in {Seq1([d \in 1..3 |->
                           GaussPointParameters(in.G, d, ng[d], iel)])}}} :
    TRUE

\* A += P^t * P and B += P^t * sigma over the points; B is kept as one
\* right-hand side after the other
LocalSystem(pts, nPol, nCmp) ==
  [A |-> Seq2([ii \in 1..nPol |-> [jj \in 1..nPol |->
            RSum([q \in 1..Len(pts) |-> RMul(pts[q].P[ii], pts[q].P[jj])],
                 Len(pts))]]),
   B |-> Seq1([e \in 1..(nPol * nCmp) |->
            RSum([q \in 1..Len(pts) |->
                   RMul(pts[q].P[((e - 1) % nPol) + 1],
                        pts[q].s[((e - 1) \div nPol) + 1])], Len(pts))])]

\* the body of the loop over the basis functions for one function:
\* [solved, value, points]
LocalProjection(in) ==
  LET ng == [d \in 1..3 |-> in.p[d] - in.m]
      nPol == (ng[1] + 1) * (ng[2] + 1) * (ng[3] + 1)
      nEl == SupportBox * SupportBox * SupportBox
  IN  CHOOSE r \in
        {[solved |-> x # <<>>,
          value |-> IF x = <<>> THEN <<>>
                    ELSE GrevilleValue(
                           [ii \in 1..nPol |-> [l \in 1..in.nCmp |->
                              x[1][(l - 1) * nPol + ii]]], in.nCmp),
          points |-> pts] :
           <<pts, x>> \in
             {<<q, Solve(sys.A, sys.B)>> :
                <<q, sys>> \in
                  {<<c, LocalSystem(c, nPol, in.nCmp)>> :
                     c \in {Cat([iel \in 1..nEl |->
                                   ElementPoints(in, ng, iel)], nEl)}}}} :
        TRUE

\* the orders of the spline: one direction, or the first two, may be one
\* higher
FitOrders(m) ==
  {[d \in 1..3 |-> m + 1 + (IF d \in hi THEN 1 ELSE 0)] :
     hi \in {{}, {1}, {2}, {3}, {1, 2}}}

\* the Greville points
FitGreville ==
  {<<One, One, One>>, <<(<<2, 1>>), One, Half>>, <<Zero, Half, <<-1, 1>>>>}

\* the fields
FitFields ==
  {<<One, <<2, 1>>, Zero, Zero>>, <<Zero, One, One, Zero>>,
   <<(<<2, 1>>), Zero, <<-1, 1>>, One>>}

FitInputs ==
  UNION {[p : FitOrders(m), m : {m}, G : FitGreville, nCmp : 1..MaxCmp,
          sigma : FitFields] : m \in 0..1}

InitFit ==
  /\ fitOp = "none"
  /\ fitArgs = <<>>
  /\ fitRes = <<>>

\* neither is in use
IdleFit ==
  /\ fitOp = "idle"
  /\ fitArgs = <<>>
  /\ fitRes = <<>>

localProjection(in) ==
  /\ fitOp = "none"
  /\ fitOp' = "localProjection"
  /\ fitArgs' = in
  /\ fitRes' = LocalProjection(in)
  /\ UNCHANGED notFit


\* ------------------------------------------------------------------------
\* ASMu3D::assembleL2matrices
\* ------------------------------------------------------------------------
\* The elements of the patch are unit cells in a row; the element loop
\* meets them in the order in.order, element data being indexed by the loop
\* counter iel.  At most one element is special: it has no coordinates
\* ("noCoords"), a negative parametric volume ("negVolume"), or the
\* secondary solution fails on it ("evalFail").  in.degen names the
\* integration point <<element, ip>> with a vanishing Jacobian.

\* lrspline->computeBasis at the abscissa x of an element: the functions
\* of the element, listed as support() does
ChainBasis(sp, x) ==
  LET asc == IF sp.order = 2 THEN <<RSub(One, x), x>>
             ELSE <<RMul(RSub(One, x), RSub(One, x)),
                    RMul(<<2, 1>>, RMul(x, RSub(One, x))), RMul(x, x)>>
  IN  IF sp.reversed THEN [k \in 1..sp.order |-> asc[sp.order + 1 - k]]
      ELSE asc

\* MNPC[iel-1] of the element e
PatchMNPC(sp, e) ==
  [k \in 1..sp.order |-> ElementSupport(sp, e)[k] - 1]

\* ng1, ng2, ng3
AssemblyGauss(sp, in) ==
  [d \in 1..3 |-> IF in.continuous THEN in.nGauss ELSE sp.order - 1]

\* getGaussPointParameters(uGP,d,ng,iel,xg) on the row of unit cells
ChainGaussParameters(d, ng, e) ==
  Seq1([i \in 1..ng |->
          IF d = 1 THEN RAdd(<<e - 1, 1>>, GaussPoints(ng)[i])
          ELSE GaussPoints(ng)[i]])

\* mutant: the parametric volume not tested
ElementStatus_CoordinatesOnly(in, e) ==
  IF in.bad # e THEN "ok"
  ELSE IF in.kind = "evalFail" THEN "evalFail"
  ELSE IF in.continuous /\ in.kind = "noCoords" THEN "noCoords"
  ELSE "ok"

\* what stops the loop at element e: "ok" when nothing does.  The
\* coordinates and the parametric volume are looked at only if continuous.
ElementStatus(in, e) ==
  IF in.bad # e THEN "ok"
  ELSE IF in.kind = "evalFail" THEN "evalFail"
  ELSE IF in.continuous THEN in.kind
  ELSE "ok"

\* dJw of the integration point ip (from 0) of element e
ScaledJacobian(in, ng, e, t, ip) ==
  IF ~in.continuous THEN One
  ELSE RMul(RMul(One, RMul(GaussWeights(ng[1])[t[1] + 1],
                           RMul(GaussWeights(ng[2])[t[2] + 1],
                                GaussWeights(ng[3])[t[3] + 1]))),
            IF in.degen = <<e, ip>> THEN Zero ELSE One)

\* mutant: the running index not advanced past a skipped point
Column_Compacted(ip, nSkipped) == ip + 1 - nSkipped

\* the column of sField of the integration point ip (from 0), nSkipped
\* points of the element having been skipped before it: sField(r,ip+1)
Column(ip, nSkipped) == ip + 1

\* the integration points of element e that contribute, as the loops
\* meet them: [phi, dJw, s], s being the column of sField used
AssemblyPoints(sp, in, e) ==
  CHOOSE pts \in
    {SelectSeq(
       Seq1([q \in 1..Len(T) |->
          LET dJw == ScaledJacobian(in, ng, e, T[q], q - 1)
              nSkipped == Cardinality({o \in 1..(q - 1) :
                 ScaledJacobian(in, ng, e, T[o], o - 1) = Zero})
          IN  [phi |-> ChainBasis(sp, GaussPoints(ng[1])[T[q][1] + 1]),
               dJw |-> dJw,
               s |-> IF dJw = Zero THEN <<>>
                     ELSE Seq1([r \in 1..in.nCmp |->
                                  sField[r][Column(q - 1, nSkipped)]])]]),
       LAMBDA pt : pt.dJw # Zero) :
       <<ng, sField, T>> \in
         {<<n, EvalSolution(in.sigma, in.nCmp,
                ExpandTensorGrid(Seq1([d \in 1..3 |->
                   ChainGaussParameters(d, n[d], e)]))),
            Nest3(n[1], n[2], n[3])>> :
            n \in {AssemblyGauss(sp, in)}}} :
    TRUE

\* the pass of the element loop over element e: its nodes (from 1) and
\* its contributing integration points
ElementPass(sp, in, e) ==
  [e |-> e, nod |-> Seq1([k \in 1..sp.order |-> PatchMNPC(sp, e)[k] + 1]),
   pts |-> AssemblyPoints(sp, in, e)]

\* mutant: the contribution stored instead of added
Accumulate_Assign(old, add) == add

\* A(inod,jnod) += ..., B(inod+(r-1)*nnod) += ...
Accumulate(old, add) == RAdd(old, add)

\* the entry that receives the contributions f[1], ..., f[n] in turn
RECURSIVE Accumulated(_, _)
Accumulated(f, n) ==
  IF n = 0 THEN Zero ELSE Accumulate(Accumulated(f, n - 1), f[n])

\* what A(inod,jnod) receives in turn over the passes
MatrixTerms(passes, inod, jnod) ==
  Cat([b \in 1..Len(passes) |->
        CHOOSE t \in
          {IF l[1] = 0 \/ l[2] = 0 THEN <<>>
           ELSE Seq1([q \in 1..Len(passes[b].pts) |->
                  RMul(RMul(passes[b].pts[q].phi[l[1]],
                            passes[b].pts[q].phi[l[2]]),
                       passes[b].pts[q].dJw)]) :
             l \in {<<LocalIndex(passes[b].nod, inod),
                      LocalIndex(passes[b].nod, jnod)>>}} : TRUE],
      Len(passes))

\* what B(inod+(r-1)*nnod) receives in turn over the passes
VectorTerms(passes, inod, r) ==
  Cat([b \in 1..Len(passes) |->
        CHOOSE t \in
          {IF ii = 0 THEN <<>>
           ELSE Seq1([q \in 1..Len(passes[b].pts) |->
                  RMul(RMul(passes[b].pts[q].phi[ii],
                            passes[b].pts[q].s[r]),
                       passes[b].pts[q].dJw)]) :
             ii \in {LocalIndex(passes[b].nod, inod)}} : TRUE],
      Len(passes))

\* A and B after the passes
AssembledSystem(sp, passes, nCmp) ==
  [A |-> Seq2([inod \in 1..sp.nBasis |-> [jnod \in 1..sp.nBasis |->
       CHOOSE a \in {Accumulated(f, Len(f)) :
                       f \in {MatrixTerms(passes, inod, jnod)}} : TRUE]]),
   B |-> Seq1([c \in 1..(sp.nBasis * nCmp) |->
       CHOOSE a \in {Accumulated(f, Len(f)) :
                       f \in {VectorTerms(passes, ((c - 1) % sp.nBasis) + 1,
                                          ((c - 1) \div sp.nBasis) + 1)}} :
         TRUE])]

\* the method: [ret, A, B, entered], entered counting the elements whose
\* integration loop ran; A and B come in zeroed
AssembleL2matrices(sp, in) ==
  LET ng == AssemblyGauss(sp, in)
      n == Len(in.order)
      stops == {q \in 1..n : ElementStatus(in, in.order[q]) # "ok"}
      last == IF stops = {} THEN n
              ELSE (CHOOSE q \in stops : \A o \in stops : q <= o) - 1
  IN  IF \E d \in 1..3 : NoGauss(ng[d])
      THEN [ret |-> FALSE, entered |-> 0,
            A |-> AssembledSystem(sp, <<>>, in.nCmp).A,
            B |-> AssembledSystem(sp, <<>>, in.nCmp).B]
      ELSE CHOOSE r \in
             {[ret |-> stops = {}, entered |-> last,
               A |-> sys.A, B |-> sys.B] :
                sys \in {AssembledSystem(sp,
                            Seq1([q \in 1..last |->
                                  ElementPass(sp, in, in.order[q])]),
                            in.nCmp)}} : TRUE

\* the special element and the degenerate point of a patch of n elements
Defects(n) ==
  {[bad |-> 0, kind |-> "ok", degen |-> <<0, 0>>]}
  \cup {[bad |-> e, kind |-> k, degen |-> <<0, 0>>] :
          e \in {1, n}, k \in {"noCoords", "negVolume", "evalFail"}}
  \cup {[bad |-> 0, kind |-> "ok", degen |-> <<e, ip>>] :
          e \in {1, n}, ip \in {0, 1}}

\* the fields projected
AssemblyFields ==
  {<<One, <<2, 1>>, Zero, Zero>>, <<(<<2, 1>>), Zero, <<-1, 1>>, One>>}

AssemblyInputs(sp) ==
  {[continuous |-> c[1], nGauss |-> c[2], bad |-> f.bad, kind |-> f.kind,
    degen |-> f.degen, order |-> o, nCmp |-> nCmp, sigma |-> sigma] :
     c \in {<<TRUE, 0>>, <<TRUE, 1>>, <<TRUE, 2>>, <<FALSE, 2>>},
     f \in Defects(NEl(sp)), o \in ElementOrders(NEl(sp)),
     nCmp \in {1, MaxCmp}, sigma \in AssemblyFields}

assembleL2matrices(in) ==
  \E r \in {AssembleL2matrices(lrspline, in)} :
      /\ Fresh
      /\ recOp' = "assembleL2matrices"
      /\ recArgs' = in
      /\ recRes' = <<r.ret>>
      /\ recLog' = [A |-> r.A, B |-> r.B, entered |-> r.entered]
      /\ UNCHANGED <<lrspline, result>>
      /\ UNCHANGED notRec

\* the patches assembled on their own: two elements
FitPatches == {sp \in AssemblyPatches : sp.nBasis = sp.order + 1}

\* assembleL2matrices on the patch sp, which is not the patch in use
assembleL2matricesOn(sp, in) ==
  /\ fitOp = "none"
  /\ fitOp' = "assembleL2matrices"
  /\ fitArgs' = [sp |-> sp, in |-> in]
  /\ fitRes' = AssembleL2matrices(sp, in)
  /\ UNCHANGED notFit

NextFit ==
  \/ fitOp = "none" /\ \E in \in FitInputs : localProjection(in)
  \/ fitOp = "none" /\ \E sp \in FitPatches :
       \E in \in AssemblyInputs(sp) : assembleL2matricesOn(sp, in)

\* one local projection or one assembly, next to an unused patch and
\* integrator
InitLocal ==
  InitFit /\ InitNLSIM /\ IdleMats /\ IdleRec /\ IdleSolver /\ IdleFields
  /\ IdleOmp /\ IdleDep

SpecFit == InitLocal /\ [][NextFit]_vars

NextRec ==
  \/ Fresh /\ \E nu \in SizesNear(lrspline.nBasis), nv \in SizesFrom(lrspline.nBasis),
        nw \in SizesFrom(lrspline.nBasis), points \in PointMatrices(lrspline) :
       \E upar \in ParArrays(lrspline, nu) :
         regularInterpolation(upar, Greville(lrspline) \o [i \in 1..(nv - lrspline.nBasis) |-> 1],
                              Greville(lrspline) \o [i \in 1..(nw - lrspline.nBasis) |-> 1],
                              points)
  \/ Fresh /\ \E integrand \in Integrands(lrspline) : scRecovery(integrand)
  \/ Fresh /\ lrspline \in FacePatches /\ \E face \in Faces, m \in 1..MaxCmp, nGauss \in 0..2,
                old \in OldResults :
       faceL2projection(face, m, nGauss, old)
  \/ Fresh /\ lrspline \in AssemblyPatches /\ \E in \in AssemblyInputs(lrspline) :
       assembleL2matrices(in)
  \/ Fresh /\ \E integr \in ProjectedFields(lrspline) : projectSolution(integr)
  \/ Fresh /\ \E prm \in OldParameters, dir \in Directions :
       getGrevilleParameters(prm, dir)

\* a patch, next to an integrator just constructed
InitPatch ==
  InitRec /\ InitNLSIM /\ IdleMats /\ IdleFit /\ IdleSolver /\ IdleFields
  /\ IdleOmp /\ IdleDep

SpecRec == InitPatch /\ [][NextRec]_vars

\* element matrices, next to an integrator just constructed
InitElMats ==
  InitMats /\ InitNLSIM /\ IdleRec /\ IdleFit /\ IdleSolver /\ IdleFields
  /\ IdleOmp /\ IdleDep

SpecMats == InitElMats /\ [][NextMats]_vars

\* the alpha attributes parsed next to element matrices
ParamAttrs ==
  {<<>>, <<(<<-1, 10>>)>>, <<(<<-1, 3>>)>>, <<Zero>>, <<Half>>, <<(<<-1, 1>>)>>}

\* the Newmark parameters of the integrator and those of element matrices:
\* the integrator parses its input and the element matrices are given
\* their step size
NextParams ==
  \/ \E isNS \in BOOLEAN, attr \in ParamAttrs, ok \in BOOLEAN :
       parse(isNS, attr, ok)
  \/ \E dt \in StepSizes, iter \in 0..1 : setStepSize(dt, iter)

SpecParams == InitElMats /\ [][NextParams]_vars

Init ==
  InitNLSIM /\ IdleMats /\ IdleRec /\ IdleFit /\ IdleSolver /\ IdleFields
  /\ IdleOmp /\ IdleDep

Next == NextNLSIM

Spec == Init /\ [][Next]_vars

\* a solver about to restart, next to an integrator just constructed
InitRestart ==
  InitSolver /\ InitNLSIM /\ IdleMats /\ IdleRec /\ IdleFit /\ IdleFields
  /\ IdleOmp /\ IdleDep

SpecRestart == InitRestart /\ [][NextSolver]_vars

\* a driver about to solve, next to an integrator just constructed
InitSolve ==
  InitDriver /\ InitNLSIM /\ IdleMats /\ IdleRec /\ IdleFit /\ IdleFields
  /\ IdleOmp /\ IdleDep

SpecSolve == InitSolve /\ [][NextDriver]_vars

\* a field about to be constructed, next to an integrator just constructed
InitConstruct ==
  InitFields /\ InitNLSIM /\ IdleMats /\ IdleRec /\ IdleFit /\ IdleSolver
  /\ IdleOmp /\ IdleDep

SpecFields == InitConstruct /\ [][NextFields]_vars

\* threads about to evaluate fields, next to an integrator just constructed
InitThreads ==
  /\ InitOmp /\ InitNLSIM /\ IdleMats /\ IdleRec /\ IdleFit /\ IdleSolver
  /\ IdleFields /\ IdleDep

SpecThreads == InitThreads /\ [][NextOmp]_vars

\* simulators about to register, next to an integrator just constructed
InitSims ==
  /\ InitDep /\ InitNLSIM /\ IdleMats /\ IdleRec /\ IdleFit /\ IdleSolver
  /\ IdleFields /\ IdleOmp

SpecDep == InitSims /\ [][NextDep]_vars

\* ------------------------------------------------------------------------
\* predictStep as a function of its inputs: the Newmark parameters, the
\* time step size and the velocity and acceleration of the history
\* ------------------------------------------------------------------------
PredictAlphas == {<<-1, 10>>, <<-1, 1>>, <<-1, 3>>, Zero, One}

PredictSteps == {<<1, 10>>, One, <<10, 1>>}

HistoryVals == {<<-1, 1>>, Zero, One}

\* a three-vector history as left by a correctStep with a zero accumulated
\* increment: velocity and acceleration equal the retained predictions
InitPredict ==
  /\ \E alpha \in PredictAlphas :
       /\ beta = ParseBeta(alpha)
       /\ gamma = ParseGamma(alpha)
  /\ param \in [step : {1}, dt : PredictSteps]
  /\ \E d \in Vectors(NDofs, {Zero, One}), v \in Vectors(NDofs, HistoryVals),
        a \in Vectors(NDofs, HistoryVals) :
       /\ solution = <<d, v, a>>
       /\ predVel = v
       /\ predAcc = a
       /\ simModel = [intPrm |-> <<simAlpha1, simAlpha2, RSub(Half, gamma)>>,
                      rhsAdds |-> <<>>, config |-> d]
  /\ incDis = ZeroVec(NDofs)
  /\ linsol = ZeroVec(NDofs)
  /\ Finert = <<>>
  /\ nlOp = "correctStep"
  /\ nlArg = "false"
  /\ nlRet = "true"
  /\ nOps = 0
  /\ nPred = 0
  /\ predDis = <<>>
  /\ IdleMats
  /\ IdleRec
  /\ IdleFit
  /\ IdleSolver
  /\ IdleFields
  /\ IdleOmp
  /\ IdleDep

NextPredict == nOps = 0 /\ predictStep

SpecPredict == InitPredict /\ [][NextPredict]_vars

\* ------------------------------------------------------------------------
\* Properties of NewmarkNLSIM
\* ------------------------------------------------------------------------
\* a step in which the named method ran and got past its size check
Ran(op) == nlOp' = op /\ Len(solution) >= 3

\* C2: predictStep writes velocity = (gamma/beta - 1)*v +
\* (0.5*gamma/beta - 1)*dt*a and acceleration = (0.5/beta - 1)*a +
\* v/(beta*dt) into the last two history vectors, v and a being the
\* velocity and acceleration held there before the call.
C2_PredictorFormulas ==
  [][Ran("predictStep") =>
       LET iA == Len(solution)
           iV == Len(solution) - 1
           v == solution[iV]
           a == solution[iA]
           dt == param.dt
       IN  /\ nlRet' = "true"
           /\ Len(solution') = Len(solution)
           /\ \A i \in 1..NDofs :
                /\ solution'[iV][i] =
                     RAdd(RMul(RSub(RDiv(gamma, beta), One), v[i]),
                          RMul(RMul(RSub(RDiv(RMul(Half, gamma), beta), One),
                                    dt), a[i]))
                /\ solution'[iA][i] =
                     RAdd(RMul(RSub(RDiv(Half, beta), One), a[i]),
                          RDiv(v[i], RMul(beta, dt)))]_vars

\* a predictStep has acted on a history with non-zero velocity and
\* acceleration, for the default parameters and dt = 0.1
C2_Witness ==
  /\ nlOp = "predictStep"
  /\ nlRet = "true"
  /\ beta = <<121, 400>>
  /\ gamma = <<3, 5>>
  /\ param.dt = <<1, 10>>
  /\ solution[2] = [i \in 1..NDofs |-> <<1189, 1210>>]
  /\ solution[3] = [i \in 1..NDofs |-> <<4079, 121>>]

\* C3: for beta # 0 and dt # 0, predictStep on a history with all-zero
\* velocity and acceleration leaves all-zero velocity and acceleration in
\* the history and all-zero retained predictions predVel and predAcc.
C3_ZeroHistoryPrediction ==
  [][(/\ Ran("predictStep")
      /\ beta # Zero
      /\ param.dt # Zero
      /\ solution[Len(solution) - 1] = ZeroVec(NDofs)
      /\ solution[Len(solution)] = ZeroVec(NDofs))
     => /\ solution'[Len(solution) - 1] = ZeroVec(NDofs)
        /\ solution'[Len(solution)] = ZeroVec(NDofs)
        /\ predVel' = ZeroVec(NDofs)
        /\ predAcc' = ZeroVec(NDofs)]_vars

\* the example of the specification: beta = 0.3025, gamma = 0.6, dt = 0.1,
\* a predictStep has run and velocity and acceleration are zero
C3_Witness ==
  /\ nlOp = "predictStep"
  /\ nlRet = "true"
  /\ beta = <<121, 400>>
  /\ gamma = <<3, 5>>
  /\ param.dt = <<1, 10>>
  /\ solution[2] = ZeroVec(NDofs)
  /\ solution[3] = ZeroVec(NDofs)
  /\ predVel = ZeroVec(NDofs)
  /\ predAcc = ZeroVec(NDofs)

\* C4: after every correctStep on a history of at least three vectors,
\* velocity = predVel + gamma/(beta*dt)*incDis and acceleration = predAcc +
\* 1/(beta*dt*dt)*incDis, hence velocity - predVel = gamma*dt*(acceleration
\* - predAcc); incDis is zero after predictStep and every correctStep adds
\* its linear-solver increment to it.
C4_CorrectorRelations ==
  /\ [](nlOp = "correctStep" /\ Len(solution) >= 3 =>
          LET vel == solution[Len(solution) - 1]
              acc == solution[Len(solution)]
              dt == param.dt
          IN  \A i \in 1..NDofs :
                /\ vel[i] = RAdd(predVel[i],
                                 RMul(RDiv(gamma, RMul(beta, dt)), incDis[i]))
                /\ acc[i] = RAdd(predAcc[i],
                                 RMul(RDiv(One, RMul(beta, RMul(dt, dt))),
                                      incDis[i]))
                /\ RSub(vel[i], predVel[i]) =
                     RMul(RMul(gamma, dt), RSub(acc[i], predAcc[i])))
  /\ [][/\ Ran("predictStep") => incDis' = ZeroVec(NDofs)
        /\ Ran("correctStep") =>
             /\ incDis' = [i \in 1..NDofs |-> RAdd(incDis[i], linsol'[i])]
             /\ predVel' = predVel
             /\ predAcc' = predAcc]_vars

\* two corrector iterations with a non-zero increment have followed a
\* predictStep that retained non-zero predictions
C4_Witness ==
  /\ nlOp = "correctStep"
  /\ Len(solution) >= 3
  /\ nPred > 0
  /\ incDis = [i \in 1..NDofs |-> <<2 * i, 1>>]
  /\ predVel[1] # Zero
  /\ predAcc[1] # Zero

\* C5: the cached inertia vector Finert changes only in a correctStep
\* called with converged = true; predictStep, advanceStep, finalizeRHSvector
\* and a correctStep with converged = false leave it unchanged; and
\* finalizeRHSvector adds the cached vector, scaled by gamma - 0.5, to
\* right-hand side 0 if and only if the cache holds a vector.
C5_InertiaCache ==
  [][/\ Finert' # Finert => nlOp' = "correctStep" /\ nlArg' = "true"
     /\ (\/ nlOp' \in {"predictStep", "advanceStep", "finalizeRHSvector"}
         \/ nlOp' = "correctStep" /\ nlArg' = "false") => Finert' = Finert
     /\ nlOp' = "finalizeRHSvector" =>
          IF Finert # <<>>
          THEN simModel'.rhsAdds =
                 Append(simModel.rhsAdds,
                        [idx |-> 0, vec |-> Finert[1],
                         scale |-> RSub(gamma, Half)])
          ELSE simModel'.rhsAdds = simModel.rhsAdds
     /\ nlOp' # "finalizeRHSvector" => simModel'.rhsAdds = simModel.rhsAdds
    ]_vars

\* a converged correctStep has cached a vector and a later finalizeRHSvector
\* has added it to right-hand side 0
C5_Witness ==
  /\ nlOp = "finalizeRHSvector"
  /\ Finert # <<>>
  /\ Len(simModel.rhsAdds) = 1
  /\ simModel.rhsAdds[1].vec = Finert[1]

\* C6: advanceStep on N history vectors moves the content of slot n-1 into
\* slot n for 1 <= n <= N-3 and leaves slot 0 and the last two slots alone;
\* with N <= 3 it modifies nothing.  It returns true and leaves the time
\* parameters alone when updateTime is false, and returns what
\* param.increment() returns otherwise.
C6_AdvanceShiftsHistory ==
  [][nlOp' = "advanceStep" =>
       LET N == Len(solution)
       IN  /\ Len(solution') = N
           /\ \A n \in 1..(N - 3) : solution'[n + 1] = solution[n]
           /\ N >= 1 => solution'[1] = solution[1]
           /\ N >= 2 => solution'[N - 1] = solution[N - 1]
           /\ N >= 1 => solution'[N] = solution[N]
           /\ N <= 3 => solution' = solution
           /\ nlArg' = "false" => nlRet' = "true" /\ param' = param
           /\ nlArg' = "true" =>
                /\ nlRet' = BoolStr(increment(param)[2])
                /\ param' = increment(param)[1]]_vars

\* an advanceStep has shifted a five-vector history whose displacement
\* slots held different values
C6_Witness ==
  /\ nlOp = "advanceStep"
  /\ Len(solution) = 5
  /\ solution[3] # ZeroVec(NDofs)
  /\ solution[2] # solution[3]
  /\ solution[1] = solution[2]

\* ------------------------------------------------------------------------
\* Properties of NewmarkMats
\* ------------------------------------------------------------------------
\* C1: getNewtonMatrix returns N = (alpha_m + alpha_f*alpha1*gamma*h)*M +
\* alpha_f*(alpha2*gamma + beta*h)*h*K with M = A[1] and K = A[2], the sum
\* multiplied by 1/(beta*h*h) if the constructor's argument b is negative,
\* and not otherwise.
C1_NewtonMatrix ==
  matsOp = "getNewtonMatrix" =>
    LET m == elMats
        cM == RAdd(m.alpha_m,
                   RMul(m.alpha_f, RMul(m.alpha1, RMul(m.gamma, m.h))))
        cK == RMul(m.alpha_f,
                   RMul(RAdd(RMul(m.alpha2, m.gamma), RMul(m.beta, m.h)),
                        m.h))
        Sum(i, j) == RAdd(RMul(cM, m.A[2][i][j]), RMul(cK, m.A[3][i][j]))
    IN  \A i \in 1..NDofs, j \in 1..NDofs :
          m.A[1][i][j] =
            IF RLess(m.argB, Zero)
            THEN RMul(Sum(i, j), RDiv(One, RMul(m.beta, RMul(m.h, m.h))))
            ELSE Sum(i, j)

\* the Newton matrix of a displacement-based generalized-alpha object with
\* Rayleigh damping has been computed for a non-zero step size
C1_Witness ==
  /\ matsOp = "getNewtonMatrix"
  /\ RLess(elMats.argB, Zero)
  /\ elMats.alpha_m # One
  /\ elMats.alpha1 # Zero
  /\ elMats.alpha2 # Zero
  /\ elMats.h = Half
  /\ IsFinite(elMats.A[1][1][1])
  /\ elMats.A[1][1][1] # Zero
  /\ elMats.A[2] # elMats.A[3]

\* C27 as stated: getRHSVector (getNewtonMatrix) called twice in a row
\* with no rebuild in between returns the same vector (matrix) both times,
\* and no call of either changes the mass matrix, the stiffness matrix or
\* the element solution vectors.
C27_GettersRepeatable ==
  [][matsOp' \in {"getRHSVector", "getNewtonMatrix"} =>
       /\ matsOp = matsOp' => matsRet' = matsRet
       /\ elMats'.A[2] = elMats.A[2]
       /\ elMats'.A[3] = elMats.A[3]
       /\ elMats'.vec = elMats.vec]_vars

\* ------------------------------------------------------------------------
\* Properties of the ASMu3D recovery methods
\* ------------------------------------------------------------------------
\* the call of regularInterpolation has an input the method refuses
BadInput ==
  \/ lrspline.rational
  \/ Len(recArgs.upar) # lrspline.nBasis
  \/ Len(recArgs.vpar) # lrspline.nBasis
  \/ Len(recArgs.wpar) # lrspline.nBasis
  \/ recArgs.points.nc # lrspline.nBasis

\* C7: regularInterpolation returns nullptr without evaluating a basis
\* function or solving a system whenever the spline is rational or one of
\* upar.size(), vpar.size(), wpar.size(), points.cols() differs from the
\* number of basis functions; it returns a spline only if neither holds
\* and the global solve succeeded.
C7_RefusesBadInput ==
  recOp = "regularInterpolation" =>
    /\ BadInput => /\ recRes = <<>>
                   /\ recLog.nBasisEvals = 0
                   /\ recLog.solve = "not called"
    /\ recRes # <<>> => ~BadInput /\ recLog.solve = "ok"

C7_Witness ==
  /\ recOp = "regularInterpolation"
  /\ ~lrspline.rational
  /\ Len(recArgs.upar) = lrspline.nBasis
  /\ Len(recArgs.vpar) = lrspline.nBasis
  /\ Len(recArgs.wpar) = lrspline.nBasis + 1
  /\ recArgs.points.nc = lrspline.nBasis
  /\ recRes = <<>>
  /\ recLog.solve = "not called"

\* the control points c as setControlPoints takes them
Interleaved(c, n, nr) ==
  [k \in 1..(n * nr) |-> c[((k - 1) \div nr) + 1][((k - 1) % nr) + 1]]

\* the call of regularInterpolation samples the field with control points
\* c at the Greville points
SamplesField(c, nr) ==
  /\ recOp = "regularInterpolation"
  /\ ~lrspline.rational
  /\ recArgs.upar = Greville(lrspline)
  /\ recArgs.vpar = Greville(lrspline)
  /\ recArgs.wpar = Greville(lrspline)
  /\ recArgs.points = Sampled(lrspline, c, nr)

\* C8: when the columns of points are the values at the Greville points
\* of the field with control points c, regularInterpolation returns a
\* spline whose control points are c, and control point i, component j is
\* the solution of right-hand side j at row i.
C8_Idempotent ==
  \A nr \in 1..MaxCmp :
    \A c \in CtrlFields(IF recOp = "none" THEN 0 ELSE lrspline.nBasis, nr) :
      SamplesField(c, nr) =>
        /\ recRes # <<>>
        /\ recRes[1].dim = nr
        /\ recRes[1].coefs = Interleaved(c, lrspline.nBasis, nr)
        /\ \A j \in 1..nr :
             \A i \in 1..lrspline.nBasis :
               recRes[1].coefs[(i - 1) * nr + j] =
                 Solve(InterpolationMatrix(lrspline, recArgs.upar),
                       recArgs.points.val[j])[1][i]

C8_Witness ==
  /\ lrspline.order = 3
  /\ lrspline.nBasis >= 4
  /\ lrspline.reversed
  /\ \E c \in CtrlFields(lrspline.nBasis, 2) :
       /\ SamplesField(c, 2)
       /\ recArgs.points # Raw(c, lrspline.nBasis, 2)
  /\ recRes # <<>>

\* C9: scRecovery returns nullptr as soon as a secondary-solution
\* evaluation or the local solve of one basis function fails, with no
\* later basis function processed and regularInterpolation not called;
\* regularInterpolation returns nullptr when its global solve fails;
\* faceL2projection returns false and leaves result as it was when its
\* solve fails.
C9_FailedSolveFailsProjection ==
  /\ recOp = "scRecovery" =>
       /\ \A k \in 1..Len(recLog.locals) :
            /\ recLog.locals[k].b = k
            /\ recLog.locals[k].status # "solved" =>
                 /\ k = Len(recLog.locals)
                 /\ recRes = <<>>
                 /\ recLog.interp = <<>>
       /\ (recLog.interp # <<>> /\ recLog.interp[1].solve = "failed") =>
            recRes = <<>>
  /\ (recOp = "regularInterpolation" /\ recLog.solve = "failed") =>
       recRes = <<>>
  /\ (recOp = "faceL2projection" /\ recLog.solve = "failed") =>
       /\ recRes = <<FALSE>>
       /\ result = recArgs.result

C9_Witness ==
  /\ recOp = "scRecovery"
  /\ Len(recLog.locals) >= 2
  /\ Len(recLog.locals) < lrspline.nBasis
  /\ recLog.locals[Len(recLog.locals)].status = "solveFailed"
  /\ recRes = <<>>

\* s is the sequence t or the part of t up to the element e
UpTo(s, t, e) ==
  /\ Len(s) >= 1
  /\ Len(s) <= Len(t)
  /\ s = SubSeq(t, 1, Len(s))
  /\ s[Len(s)] = e

\* C10: for every basis function scRecovery processes, whatever the
\* number of elements in its own support, the elements entering the local
\* system are those of its extended support (all of them, or those up to
\* the one on which the secondary solution fails).
C10_ExtendedSupportAlways ==
  recOp = "scRecovery" =>
    \A k \in 1..Len(recLog.locals) :
      LET fit == recLog.locals[k]
          ext == Sorted(ExtendedSupport(lrspline, fit.b))
      IN  IF fit.status = "evalFailed"
          THEN UpTo(fit.els, ext, recArgs.evalFail)
          ELSE fit.els = ext

C10_Witness ==
  /\ recOp = "scRecovery"
  /\ \E k \in 1..Len(recLog.locals) :
       LET b == recLog.locals[k].b
           ng == lrspline.order - recArgs.m
       IN  /\ recLog.locals[k].status = "solved"
           /\ SupportOf(lrspline, b) # ExtendedSupport(lrspline, b)
           /\ Cardinality(SupportOf(lrspline, b)) * ng * ng * ng
                >= (ng + 1) * (ng + 1) * (ng + 1)
           /\ recLog.locals[k].els = Sorted(ExtendedSupport(lrspline, b))

\* C11: the local fit of a basis function uses the elements of the
\* function's own support, and those of the extended support only when the
\* own support has too few elements, that is when the number of its
\* elements times the Gauss points per element is less than nPol.
C11_OwnSupportUnlessTooFew ==
  recOp = "scRecovery" =>
    \A k \in 1..Len(recLog.locals) :
      LET fit == recLog.locals[k]
          ng == lrspline.order - recArgs.m
          nPol == (ng + 1) * (ng + 1) * (ng + 1)
          own == Sorted(SupportOf(lrspline, fit.b))
          ext == Sorted(ExtendedSupport(lrspline, fit.b))
          els == IF Len(own) * ng * ng * ng < nPol THEN ext ELSE own
      IN  IF fit.status = "evalFailed"
          THEN UpTo(fit.els, els, recArgs.evalFail)
          ELSE fit.els = els

\* P holds the monomials of the point R with n1, n2, n3 terms per
\* direction, the exponent of the first direction varying fastest
MonomialsOf(P, R, n1, n2, n3) ==
  /\ Len(P) = n1 * n2 * n3
  /\ \A i \in 0..(n1 - 1), j \in 0..(n2 - 1), k \in 0..(n3 - 1) :
       P[1 + i + n1 * (j + n2 * k)] =
         RMul(RMul(Pow(R[1], i), Pow(R[2], j)), Pow(R[3], k))

\* C12: the monomials of every Gauss point are those of its coordinates
\* relative to the Greville point of the basis function, with the constant
\* monomial 1 at index 1 and the first exponent varying fastest; the value
\* recorded for the function is, for every component, the constant
\* coefficient of the solved local polynomial, which for a field inside
\* the polynomial space is the field at the Greville point.
C12_ConstantTermAtGreville ==
  fitOp = "localProjection" =>
    /\ \A q \in 1..Len(fitRes.points) :
         /\ fitRes.points[q].P[1] = One
         /\ MonomialsOf(fitRes.points[q].P,
                        [d \in 1..3 |-> RSub(fitRes.points[q].X[d],
                                              fitArgs.G[d])],
                        fitArgs.p[1] - fitArgs.m + 1,
                        fitArgs.p[2] - fitArgs.m + 1,
                        fitArgs.p[3] - fitArgs.m + 1)
    /\ fitRes.solved =>
         \A l \in 1..fitArgs.nCmp :
           fitRes.value[l] = FieldValue(fitArgs.sigma, l, fitArgs.G)

C12_Witness ==
  /\ fitOp = "localProjection"
  /\ fitRes.solved
  /\ fitArgs.p = <<2, 3, 2>>
  /\ fitArgs.nCmp = 2
  /\ fitArgs.G = <<(<<2, 1>>), One, Half>>
  /\ fitArgs.sigma = <<(<<2, 1>>), Zero, <<-1, 1>>, One>>
  /\ fitRes.value = <<(<<7, 2>>), <<9, 2>>>>

\* the integration point ip (from 0) of element e, ng points in each
\* direction: its parameters X, its weight w, the basis values phi on it
\* and the nodes nod (from 1) they belong to
QuadraturePoint(sp, ng, e, ip) ==
  LET i == (ip % ng) + 1
      j == ((ip \div ng) % ng) + 1
      k == (ip \div (ng * ng)) + 1
  IN  [X |-> <<RAdd(<<e - 1, 1>>, GaussPoints(ng)[i]), GaussPoints(ng)[j],
               GaussPoints(ng)[k]>>,
       w |-> RMul(GaussWeights(ng)[i],
                  RMul(GaussWeights(ng)[j], GaussWeights(ng)[k])),
       phi |-> ChainBasis(sp, GaussPoints(ng)[i]),
       nod |-> ElementSupport(sp, e)]

\* the integration points of the patch other than the degenerate one
SoundPoints(sp, in) ==
  LET ng == in.nGauss
      np == ng * ng * ng
  IN  SelectSeq(
        Seq1([q \in 1..(NEl(sp) * np) |->
               IF <<((q - 1) \div np) + 1, (q - 1) % np>> = in.degen
               THEN <<>>
               ELSE QuadraturePoint(sp, ng, ((q - 1) \div np) + 1,
                                    (q - 1) % np)]),
        LAMBDA pt : pt # <<>>)

\* the sum over the points pts of phi_i * phi_j * w at the nodes i and j
MassOver(sp, pts) ==
  Seq2([inod \in 1..sp.nBasis |-> [jnod \in 1..sp.nBasis |->
     RSum([q \in 1..Len(pts) |->
            LET ii == LocalIndex(pts[q].nod, inod)
                jj == LocalIndex(pts[q].nod, jnod)
            IN  IF ii = 0 \/ jj = 0 THEN Zero
                ELSE RMul(RMul(pts[q].phi[ii], pts[q].phi[jj]), pts[q].w)],
          Len(pts))]])

\* the sum over the points pts of phi_i * w * (component r of the field
\* sigma at the point itself)
LoadOver(sp, pts, sigma, nCmp) ==
  Seq1([c \in 1..(sp.nBasis * nCmp) |->
     RSum([q \in 1..Len(pts) |->
            LET ii == LocalIndex(pts[q].nod, ((c - 1) % sp.nBasis) + 1)
            IN  IF ii = 0 THEN Zero
                ELSE RMul(RMul(pts[q].phi[ii],
                               FieldValue(sigma, ((c - 1) \div sp.nBasis) + 1,
                                          pts[q].X)), pts[q].w)],
          Len(pts))])

\* an integration point of the continuous assembly is degenerate
DegeneratePoint ==
  /\ recOp = "assembleL2matrices"
  /\ recArgs.continuous
  /\ recArgs.degen[1] # 0
  /\ recArgs.nGauss >= 1
  /\ recArgs.degen[2] < recArgs.nGauss * recArgs.nGauss * recArgs.nGauss

\* an element of the face is degenerate and the element loop is entered
DegenerateFace ==
  /\ recOp = "faceL2projection"
  /\ ~NoGauss(recArgs.nGauss)
  /\ recArgs.face.edg # "NONE"
  /\ \E iel \in 1..Len(recArgs.face.kinds) :
        recArgs.face.kinds[iel] = "degenerate"

\* the face with its degenerate elements taken out of the element loop
SoundFace(face) ==
  [face EXCEPT !.MLGE = SelectSeq(face.MLGE,
       LAMBDA l : face.kinds[1 + l] # "degenerate")]

\* C13: a degenerate integration point (scaled Jacobian weight 0) of the
\* continuous assembleL2matrices or of faceL2projection adds nothing to A
\* or B and does not end the assembly, and each other point of its element
\* still enters B with the field sampled at that very point
C13_DegeneratePointSkipped ==
  /\ DegeneratePoint =>
       \E pts \in {SoundPoints(lrspline, recArgs)} :
          /\ recRes = <<TRUE>>
          /\ recLog.entered = NEl(lrspline)
          /\ recLog.A = MassOver(lrspline, pts)
          /\ recLog.B = LoadOver(lrspline, pts, recArgs.sigma, recArgs.nCmp)
  /\ DegenerateFace =>
       \E f \in {SoundFace(recArgs.face)} :
        \E pts \in {FacePoints(f, recArgs.nGauss, Len(f.MLGE))} :
          /\ recLog.solve # "not called"
          /\ recLog.elements = Len(recArgs.face.MLGE)
          /\ recLog.A = FaceMatrix(pts, Len(recArgs.face.MLGE) + 1)
          /\ recLog.B = FaceVector(pts, Len(recArgs.face.MLGE) + 1,
                                   recArgs.m)

\* the first point of the first element is degenerate and seven points
\* of that element follow it
C13_Witness ==
  /\ DegeneratePoint
  /\ recArgs.nGauss = 2
  /\ recArgs.degen = <<1, 0>>
  /\ recRes = <<TRUE>>
  /\ \E c \in 1..Len(recLog.B) : recLog.B[c] # Zero

\* the elements in the order of their numbers
Ascending(n) == [q \in 1..n |-> q]

\* C14: for a run that succeeds, A and B of assembleL2matrices, and A and
\* B after the element loop of faceL2projection, are those of the same run
\* with the elements visited in the order of their numbers, whatever the
\* order of the element loop was
C14_OrderOfElementsIrrelevant ==
  /\ (recOp = "assembleL2matrices" /\ recRes = <<TRUE>>) =>
       \E r \in {AssembleL2matrices(lrspline,
                   [recArgs EXCEPT !.order = Ascending(NEl(lrspline))])} :
          /\ r.ret
          /\ recLog.A = r.A
          /\ recLog.B = r.B
  /\ (recOp = "faceL2projection" /\ recLog.solve # "not called") =>
       \E f \in {[recArgs.face EXCEPT !.MLGE =
                    [q \in 1..Len(recArgs.face.MLGE) |-> q - 1]]} :
        \E pts \in {FacePoints(f, recArgs.nGauss, Len(f.MLGE))} :
          /\ recLog.A = FaceMatrix(pts, Len(f.MLGE) + 1)
          /\ recLog.B = FaceVector(pts, Len(f.MLGE) + 1, recArgs.m)

\* a successful assembly over at least three elements met in descending
\* order, with overlapping supports
C14_Witness ==
  /\ recOp = "assembleL2matrices"
  /\ recRes = <<TRUE>>
  /\ NEl(lrspline) >= 3
  /\ recArgs.order = [q \in 1..NEl(lrspline) |-> NEl(lrspline) + 1 - q]
  /\ recLog.A[2][2] # Zero
  /\ recLog.B[2] # Zero

\* the part of the element loop order that precedes element e
Before(order, e) ==
  SubSeq(order, 1, (CHOOSE q \in 1..Len(order) : order[q] = e) - 1)

\* assembleL2matrices returned false and A and B hold what the elements
\* met before element e added, nothing of e
RefusedAt(e) ==
  /\ recRes = <<FALSE>>
  /\ recLog.entered <= Len(Before(recArgs.order, e))
  /\ \E sys \in {AssembledSystem(lrspline,
                   Seq1([q \in 1..recLog.entered |->
                           ElementPass(lrspline, recArgs, recArgs.order[q])]),
                   recArgs.nCmp)} :
        recLog.A = sys.A /\ recLog.B = sys.B

\* faceL2projection returned false without solving, and A and B hold what
\* the face elements met before element iel added, nothing of iel
FaceRefusedAt(iel) ==
  /\ recRes = <<FALSE>>
  /\ recLog.solve = "not called"
  /\ recLog.A # <<>> =>
       \E f \in {[recArgs.face EXCEPT !.MLGE =
                    Before([q \in 1..Len(recArgs.face.MLGE) |->
                              1 + recArgs.face.MLGE[q]], iel)]} :
        \E pts \in {FacePoints(recArgs.face, recArgs.nGauss, Len(f.MLGE))} :
          /\ recLog.A = FaceMatrix(pts, Len(recArgs.face.MLGE) + 1)
          /\ recLog.B = FaceVector(pts, Len(recArgs.face.MLGE) + 1, recArgs.m)

\* a face element has a negative parametric area
NegativeArea ==
  /\ recOp = "faceL2projection"
  /\ \E iel \in 1..Len(recArgs.face.kinds) :
        recArgs.face.kinds[iel] = "negArea"

\* C15 as claimed: a negative parametric volume makes assembleL2matrices
\* return false for both values of continuous, and a negative parametric
\* area makes faceL2projection return false, before the element adds to A
\* or B
C15_NegativeVolumeRefusedInBothModes ==
  /\ (recOp = "assembleL2matrices" /\ recArgs.kind = "negVolume") =>
       RefusedAt(recArgs.bad)
  /\ NegativeArea =>
       \A iel \in 1..Len(recArgs.face.kinds) :
          recArgs.face.kinds[iel] = "negArea" => FaceRefusedAt(iel)

\* C15: with continuous set, a negative parametric volume of an element
\* makes assembleL2matrices return false, and a negative parametric area
\* of a face element makes faceL2projection return false, in each case
\* before that element adds to A or B
C15_NegativeVolumeRefused ==
  /\ (recOp = "assembleL2matrices" /\ recArgs.kind = "negVolume"
        /\ recArgs.continuous) =>
       RefusedAt(recArgs.bad)
  /\ NegativeArea =>
       \A iel \in 1..Len(recArgs.face.kinds) :
          recArgs.face.kinds[iel] = "negArea" => FaceRefusedAt(iel)

\* the continuous assembly gives up at the last element, of negative
\* volume, after the elements before it have been assembled
C15_Witness ==
  /\ recOp = "assembleL2matrices"
  /\ recArgs.continuous
  /\ recArgs.kind = "negVolume"
  /\ recArgs.bad = NEl(lrspline)
  /\ recArgs.order = Ascending(NEl(lrspline))
  /\ recRes = <<FALSE>>
  /\ recLog.entered = NEl(lrspline) - 1
  /\ recLog.entered >= 1
  /\ recLog.A[1][1] # Zero

\* C16: getGrevilleParameters, asked for direction 0, 1 or 2 on a patch
\* with a spline, returns true and leaves in prm exactly one value per
\* basis function, that function's Greville parameter, in the order of
\* the basis functions and whatever prm held before; so projectSolution
\* and scRecovery hand regularInterpolation three parameter arrays of as
\* many values as there are basis functions
C16_OneGrevilleParameterPerFunction ==
  /\ (recOp = "getGrevilleParameters" /\ recArgs.dir \in 0..2) =>
       /\ recRes = <<TRUE>>
       /\ Len(recLog.prm) = lrspline.nBasis
       /\ \A b \in 1..lrspline.nBasis : recLog.prm[b] = Greville(lrspline)[b]
  /\ (recOp \in {"projectSolution", "scRecovery"} /\ recLog.interp # <<>>) =>
       recLog.interp[1].sizes
         = <<lrspline.nBasis, lrspline.nBasis, lrspline.nBasis>>

\* the call for the third direction with an array that already held values
C16_Witness ==
  /\ recOp = "getGrevilleParameters"
  /\ recArgs.dir = 2
  /\ recArgs.prm # <<>>
  /\ recRes = <<TRUE>>
  /\ lrspline.nBasis >= 3

\* C17: restart returns 0 exactly when no restart file is named; it
\* returns a positive number, the level read plus one, exactly when the
\* restart data was read and deSerialize succeeded; and it returns a
\* negative number on every failure: the code of readRestartData when the
\* read failed, -2 when deSerialize failed
C17_RestartReturnValue ==
  restartRet # <<>> =>
    /\ restartRet[1] = 0 <=> restartArgs.restartFile = ""
    /\ restartRet[1] > 0 <=>
         /\ restartArgs.restartFile # ""
         /\ restartArgs.read >= 0
         /\ restartArgs.deser
    /\ restartRet[1] > 0 => restartRet[1] = restartArgs.read + 1
    /\ (restartArgs.restartFile # "" /\ restartArgs.read < 0) =>
         restartRet[1] = restartArgs.read
    /\ (restartArgs.restartFile # "" /\ restartArgs.read >= 0
          /\ ~restartArgs.deser) =>
         restartRet[1] = -2

\* the first level of a restart file is read and restored
C17_Witness ==
  /\ restartRet = <<1>>
  /\ restartArgs.restartFile # ""
  /\ restartArgs.read = 0
  /\ restartArgs.deser

\* the tensor grids of Gauss point parameters of a local projection, one
\* for each element of the box
FitGrids ==
  {Seq1([d \in 1..3 |->
           GaussPointParameters(fitArgs.G, d, fitArgs.p[d] - fitArgs.m, iel)]) :
     iel \in 1..(SupportBox * SupportBox * SupportBox)}

\* out is the grid in point by point, the first direction running fastest
Unstructured(in, out) ==
  LET n1 == Len(in[1])
      n2 == Len(in[2])
      n3 == Len(in[3])
  IN  /\ \A d \in 1..3 : Len(out[d]) = n1 * n2 * n3
      /\ \A i \in 0..(n1 - 1), j \in 0..(n2 - 1), k \in 0..(n3 - 1) :
           /\ out[1][i + n1 * (j + n2 * k) + 1] = in[1][i + 1]
           /\ out[2][i + n1 * (j + n2 * k) + 1] = in[2][j + 1]
           /\ out[3][i + n1 * (j + n2 * k) + 1] = in[3][k + 1]

\* every integration point of the patch sp, as assembleL2matrices weighs
\* it when nothing is degenerate
AllPoints(sp, in) ==
  LET ng == AssemblyGauss(sp, in)[1]
      np == ng * ng * ng
  IN  Seq1([q \in 1..(NEl(sp) * np) |->
        [QuadraturePoint(sp, ng, ((q - 1) \div np) + 1, (q - 1) % np)
           EXCEPT !.w = IF in.continuous THEN @ ELSE One]])

\* C18: expandTensorGrid turns a tensor grid in[0..2] into three arrays of
\* |in[0]|*|in[1]|*|in[2]| values with out[0][ip] = in[0][i],
\* out[1][ip] = in[1][j], out[2][ip] = in[2][k] at ip = i+|in[0]|*(j+|in[1]|*k),
\* and the Gauss point loops of scRecovery and assembleL2matrices advance
\* their index in that order: the column of the sampled field that a Gauss
\* point is combined with holds the field at that Gauss point
C18_FirstDirectionFastest ==
  /\ fitOp = "localProjection" =>
       /\ \A in \in FitGrids : Unstructured(in, ExpandTensorGrid(in))
       /\ \A q \in 1..Len(fitRes.points) : \A l \in 1..fitArgs.nCmp :
            fitRes.points[q].s[l]
              = FieldValue(fitArgs.sigma, l, fitRes.points[q].X)
  /\ (fitOp = "assembleL2matrices" /\ fitRes.ret
        /\ fitArgs.in.degen = <<0, 0>>) =>
       /\ \A e \in 1..NEl(fitArgs.sp) :
            \E in \in {Seq1([d \in 1..3 |->
                  ChainGaussParameters(d, AssemblyGauss(fitArgs.sp,
                                                        fitArgs.in)[d], e)])} :
               Unstructured(in, ExpandTensorGrid(in))
       /\ fitRes.B = LoadOver(fitArgs.sp, AllPoints(fitArgs.sp, fitArgs.in),
                              fitArgs.in.sigma, fitArgs.in.nCmp)

\* a local projection with two Gauss points in each of the first two
\* directions and one in the third
C18_Witness ==
  /\ fitOp = "localProjection"
  /\ fitArgs.p[1] - fitArgs.m = 2
  /\ fitArgs.p[2] - fitArgs.m = 2
  /\ fitArgs.p[3] - fitArgs.m = 1
  /\ Len(fitRes.points) = 4 * SupportBox * SupportBox * SupportBox
  /\ fitRes.points[2].X # fitRes.points[3].X

\* C19: the SplineFields2D constructor makes values exactly nno*nf long,
\* nf being 2 when nnf is 0; when the patch stores fewer components per
\* node (nfc) than nf, the components j >= nfc of every node are zero and
\* the components j < nfc of node i are v[ofs + nfc*i + j]; the nodes that
\* v is too short to cover are all zero
C19_ZeroPadded ==
  fields # <<>> =>
    LET nno == fieldsArgs.patch.nodes[fieldsArgs.nbasis]
        nfc == fieldsArgs.patch.fields[fieldsArgs.nbasis]
        ofs == Offset(fieldsArgs.patch, fieldsArgs.nbasis)
        nf == fields.nf
        v == fieldsArgs.v
    IN  /\ nf = (IF fieldsArgs.nnf = 0 THEN 2 ELSE fieldsArgs.nnf)
        /\ Len(fields.values) = nno * nf
        /\ nfc < nf =>
             \A i \in 0..(nno - 1) :
                /\ \A j \in nfc..(nf - 1) : fields.values[nf * i + j + 1] = 0
                /\ \A j \in 0..(nfc - 1) :
                     ofs + nfc * i + j < Len(v) =>
                       fields.values[nf * i + j + 1] = v[ofs + nfc * i + j + 1]
        /\ \A i \in 0..(nno - 1) :
             ofs + nfc * i >= Len(v) =>
               \A j \in 0..(nf - 1) : fields.values[nf * i + j + 1] = 0

\* the threads executing a call on a spline object
Executing == {t \in DOMAIN threads : threads[t].at = "in"}

\* C22: whatever the threads call of valueFE, valueCoor, gradFE and
\* hessianFE, at most one thread at a time executes a computeBasis or
\* closestPoint call: each such call of the four methods is the statement
\* of an omp critical region, and a thread executing one is the one thread
\* inside a critical region.
C22_OneThreadInSplineCall ==
  shared # "none" =>
    /\ Cardinality(Executing) <= 1
    /\ \A t \in Executing : critical = t
    /\ \A sh \in {"own", "surf", "null"} :
         \A plan \in Plans(sh) : \A k \in 1..Len(plan) : Critical(plan[k])

\* thread 1 evaluates the basis in gradFE while thread 2 has called
\* hessianFE and has not got into its first critical region
C22_Witness ==
  /\ shared = "own"
  /\ critical = 1
  /\ threads[1] = [todo |-> <<"gradFE/basis">>, at |-> "in"]
  /\ threads[2] = [todo |-> <<"hessianFE/surf", "hessianFE/basis">>,
                   at |-> "out"]

\* the vector of the last registerField(name, .) call on sim, 0 if none
LastRegistered(sim, name) ==
  LET ks == {k \in 1..Len(fieldLog) :
               fieldLog[k].sim = sim /\ fieldLog[k].name = name}
  IN  IF ks = {} THEN 0
      ELSE fieldLog[CHOOSE k \in ks : \A j \in ks : j <= k].vec

\* C28 as stated: the constructor reads v only at positions below
\* v.size() and its iterators never take a position beyond v.end().
C28_ReadsWithinInput ==
  fields # <<>> =>
    /\ \A k \in fields.reads : k < Len(fieldsArgs.v)
    /\ \A k \in fields.formed : k <= Len(fieldsArgs.v)

\* C29: getField(name) returns the vector of the most recent
\* registerField for that name, and NULL for a name never registered;
\* hence registering a name does not change what getField returns for
\* another name, and registerDependency does not change what it returns.
C29_GetFieldReturnsLastRegistered ==
  myFields # <<>> =>
    \A sim \in Sims, name \in FieldNames :
      GetField(myFields[sim], name) = LastRegistered(sim, name)

\* field a of S2 was registered twice, with different vectors, field b
\* never, and a dependency was registered afterwards
C29_Witness ==
  /\ myFields # <<>>
  /\ Len(fieldLog) = 2
  /\ fieldLog[1] = [sim |-> "S2", name |-> "a", vec |-> 2]
  /\ fieldLog[2] = [sim |-> "S2", name |-> "a", vec |-> 1]
  /\ Len(depFields) = 1
  /\ GetField(myFields["S2"], "b") = 0

\* the dependencies extractPatchDependencies extracts: the problem has the
\* named vector and the provider has a non-empty field of that name
Extracted ==
  {k \in 1..Len(depFields) :
     /\ extraction.problem[depFields[k].name] # <<>>
     /\ myFields[depFields[k].sim][depFields[k].name] # 0
     /\ Content(myFields[depFields[k].sim][depFields[k].name]) # <<>>}

\* C30: extractPatchDependencies goes through the dependencies in the
\* order of their registration and calls extractNodeVec for those whose
\* local vector exists and whose provider's field is registered and not
\* empty: on patches[pindx] of the dependency if pindx < patches.size(), on
\* model[pindx] otherwise, with |components| components and the negative
\* components as basis flag (0 otherwise).  The local vector of a
\* dependency that is skipped is left alone, and true is returned.
C30_ExtractsRegisteredFields ==
  extraction # <<>> =>
    LET x == extraction
        n == Len(x.calls)
    IN  /\ x.ret
        /\ {x.calls[c].dep : c \in 1..n} = Extracted
        /\ \A c \in 1..(n - 1) : x.calls[c].dep < x.calls[c + 1].dep
        /\ \A c \in 1..n :
             LET it == depFields[x.calls[c].dep]
             IN  /\ x.calls[c].gvec = LastRegistered(it.sim, it.name)
                 /\ x.calls[c].patch =
                      IF x.pindx < Len(it.patches)
                      THEN it.patches[x.pindx + 1]
                      ELSE x.model[x.pindx + 1]
                 /\ x.calls[c].nndof = Abs(it.components)
                 /\ x.calls[c].basis =
                      IF it.components < 0 THEN it.components ELSE 0
        /\ \A name \in FieldNames :
             (\A k \in Extracted : depFields[k].name # name) =>
               x.vectors[name] = x.problem[name]

\* the first of two dependencies was skipped, its field not being
\* registered, and the second one, of -2 components and with one patch of
\* its own, was extracted for the second patch of the model
C30_Witness ==
  /\ extraction # <<>>
  /\ extraction.pindx = 1
  /\ Len(depFields) = 2
  /\ depFields[1].name = "a"
  /\ depFields[2].patches = <<"p1">>
  /\ extraction.problem["a"] # <<>>
  /\ extraction.vectors["a"] = extraction.problem["a"]
  /\ extraction.calls =
       <<[dep |-> 2, patch |-> "m2", gvec |-> 2, nndof |-> 2, basis |-> -2]>>

\* C20: predictStep leaves every displacement vector of the history (all
\* slots but the last two) as it is and leaves incDis zero, so the
\* correctStep that follows it accumulates its increment from zero
C20_ConstantDisplacementPredictor ==
  [][/\ nPred' # nPred =>
          /\ Len(solution') = Len(solution)
          /\ \A k \in 1..(Len(solution) - 2) : solution'[k] = solution[k]
          /\ incDis' = ZeroVec(NDofs)
     /\ (nlOp = "predictStep" /\ nlOp' = "correctStep"
           /\ Len(solution) >= 3) =>
          incDis' = linsol']_vars

\* predictStep right after a correctStep that moved the displacement
C20_Witness ==
  /\ nlOp = "predictStep"
  /\ nlRet = "true"
  /\ nOps = 2
  /\ Len(solution) >= 4
  /\ solution[1] # ZeroVec(NDofs)
  /\ incDis = ZeroVec(NDofs)

\* beta and gamma are tied to alpha
TiedTo(alpha, b, g) ==
  /\ b = RMul(Quarter, RMul(RSub(One, alpha), RSub(One, alpha)))
  /\ g = RSub(Half, alpha)

\* C21: beta and gamma of the integrator always are 0.25*(1-alpha)^2 and
\* 0.5 - alpha for one alpha, so that beta = 0.25*(gamma + 0.5)^2; the
\* constructor's beta = 0.3025 and gamma = 0.6 are what parse computes when
\* the alpha attribute is absent (alpha = -0.1); and element matrices made
\* in generalized-alpha mode have alpha_m = |b|, alpha_f = c and beta,
\* gamma tied in the same way to alpha = alpha_f - alpha_m.
C21_ParametersTiedToAlpha ==
  /\ [](/\ TiedTo(RSub(Half, gamma), beta, gamma)
        /\ beta = RMul(Quarter, RMul(RAdd(gamma, Half), RAdd(gamma, Half)))
        /\ nlOp = "new" => TiedTo(<<-1, 10>>, beta, gamma)
        /\ elMats.argGA =>
             /\ elMats.alpha_m = RAbs(elMats.argB)
             /\ elMats.alpha_f = elMats.argC
             /\ TiedTo(RSub(elMats.alpha_f, elMats.alpha_m), elMats.beta,
                       elMats.gamma)
             /\ elMats.beta =
                  RMul(Quarter, RMul(RAdd(elMats.gamma, Half),
                                     RAdd(elMats.gamma, Half))))
  /\ [][nlOp' = "parse" =>
          /\ nlArg' = "default" =>
               /\ beta' = <<121, 400>> /\ gamma' = <<3, 5>>
               /\ nlOp = "new" => beta' = beta /\ gamma' = gamma
          /\ nlArg' = "alpha" =>
               \E attr \in ParamAttrs \ {<<>>} :
                 TiedTo(attr[1], beta', gamma')
          /\ nlArg' = "other" => beta' = beta /\ gamma' = gamma]_vars

\* parse has run on a <newmarksolver> element without alpha attribute, next
\* to generalized-alpha element matrices with alpha_m = 0.25, alpha_f = 0.5
C21_Witness ==
  /\ nlOp = "parse"
  /\ nlArg = "default"
  /\ beta = <<121, 400>>
  /\ gamma = <<3, 5>>
  /\ elMats.argGA
  /\ elMats.alpha_m = Quarter
  /\ elMats.alpha_f = Half
  /\ elMats.beta = <<9, 64>>
  /\ elMats.gamma = Quarter

\* the calls solveProblem has made, and the places in the log of the calls
\* of one name
DriverLog == driver.log

Calls(name) == {k \in 1..Len(DriverLog) : DriverLog[k].call = name}

\* the calls saveState makes
InSaveState ==
  {"saveModel", "saveStep", "dumpTimeLevel", "dumpTimeLevel(data)"}

\* C23: solveProblem stops at the first failure and returns 2 if the
\* initial saveState fails (no step being attempted), 3 if a solveStep
\* fails, 4 if a solveStep fails while saveDivergedSol is set and saving the
\* diverged step fails, 4 if a saveState after a step fails, and 0 only
\* when advanceStep returns false; solveStep is called only right after
\* tp.increment() and S1.advanceStep(tp) returned true, S1.advanceStep only
\* after tp.increment() returned true, and saveState, after the initial
\* one, only right after a solveStep that returned true.
C23_FirstFailureEncoded ==
  driver # <<>> =>
    LET log == DriverLog
        n == Len(log)
        divergedAt(k) == k >= 1 /\ log[k] = Call("solveStep", FALSE)
        failedSave == {k \in Calls("saveState") : ~log[k].ok}
    IN  /\ \A k \in 1..n :
             ~log[k].ok =>
               /\ driver.pc = "done"
               /\ \A j \in (k + 1)..n : log[j].call \in InSaveState
        /\ \A k \in Calls("solveStep") :
             /\ k >= 3
             /\ log[k - 1] = Call("S1.advanceStep", TRUE)
             /\ log[k - 2] = Call("increment", TRUE)
        /\ \A k \in Calls("S1.advanceStep") :
             k >= 2 /\ log[k - 1] = Call("increment", TRUE)
        /\ \A k \in Calls("saveState") :
             k > 1 => log[k - 1] = Call("solveStep", TRUE)
        /\ driver.pc # "done" => driver.ret = -1
        /\ driver.pc = "done" =>
             /\ driver.ret \in {0, 2, 3, 4}
             /\ driver.ret = 2 <=>
                  /\ log[1] = Call("saveState", FALSE)
                  /\ Calls("increment") = {}
                  /\ Calls("solveStep") = {}
             /\ driver.ret = 3 <=>
                  \/ divergedAt(n) /\ ~driver.saveDivergedSol
                  \/ /\ divergedAt(n - 1) /\ driver.saveDivergedSol
                     /\ log[n] = Call("saveStep", TRUE)
             /\ driver.ret = 4 <=>
                  \/ /\ divergedAt(n - 1) /\ driver.saveDivergedSol
                     /\ log[n] = Call("saveStep", FALSE)
                  \/ \E k \in failedSave : k > 1
             /\ driver.ret = 0 <=>
                  \/ log[n] = Call("increment", FALSE)
                  \/ log[n] = Call("S1.advanceStep", FALSE)

\* the second solveStep failed, the diverged step was to be saved and
\* saving it failed as well, after a first step that was solved and saved
C23_Witness ==
  /\ driver # <<>>
  /\ driver.pc = "done"
  /\ driver.ret = 4
  /\ driver.saveDivergedSol
  /\ driver.tp.step = 2
  /\ Cardinality(Calls("solveStep")) = 2
  /\ Cardinality(Calls("saveState")) = 2
  /\ DriverLog[Len(DriverLog)] = Call("saveStep", FALSE)

\* C24: with fewer than three vectors in the solution history predictStep
\* and correctStep return false and leave the history, incDis, predVel,
\* predAcc, the cached Finert and the configuration of the model as they
\* were.
C24_ShortHistoryRefused ==
  [][(nlOp' \in {"predictStep", "correctStep"} /\ nOps' # nOps
        /\ Len(solution) < 3) =>
       /\ nlRet' = "false"
       /\ solution' = solution
       /\ incDis' = incDis
       /\ predVel' = predVel
       /\ predAcc' = predAcc
       /\ Finert' = Finert
       /\ simModel' = simModel]_vars

\* a correctStep handed a non-zero increment and asked to cache the inertia
\* vector was refused on a history of two vectors, after a predictStep that
\* was refused as well
C24_Witness ==
  /\ nlOp = "correctStep"
  /\ nlArg = "true"
  /\ nlRet = "false"
  /\ Len(solution) = 2
  /\ nPred = 1
  /\ linsol # ZeroVec(NDofs)
  /\ Finert = <<>>

\* C25: from the return of a predictStep until the next one, the current
\* displacement minus the accumulated increment incDis is the displacement
\* held when that predictStep returned, whatever was called in between.
C25_IncrementTracksDisplacement ==
  predDis # <<>> =>
    \A i \in 1..NDofs : RSub(solution[1][i], incDis[i]) = predDis[1][i]

\* two corrector iterations, the second one not converged and with a failed
\* configuration update, have followed a predictStep that returned with a
\* non-zero displacement
C25_Witness ==
  /\ nlOp = "correctStep"
  /\ nlArg = "false"
  /\ nlRet = "false"
  /\ predDis # <<>>
  /\ predDis[1] # ZeroVec(NDofs)
  /\ incDis = [i \in 1..NDofs |-> <<2 * i, 1>>]

\* C26 as stated: a correctStep with an all-zero increment right after a
\* predictStep leaves the velocity and the acceleration of the history
\* equal to the values predictStep wrote there.
C26_ZeroIncrementKeepsPrediction ==
  [][(/\ nlOp = "predictStep" /\ nlRet = "true"
      /\ nlOp' = "correctStep" /\ nOps' # nOps
      /\ linsol' = ZeroVec(NDofs)) =>
       /\ solution'[Len(solution) - 1] = solution[Len(solution) - 1]
       /\ solution'[Len(solution)] = solution[Len(solution)]]_vars

\* C26: a correctStep with an all-zero increment right after a predictStep
\* leaves the velocity and the acceleration of the history equal to the
\* retained predVel and predAcc, which are the values predictStep wrote
\* into the history multiplied by -1.
C26_ZeroIncrementGivesRetained ==
  [][(/\ nlOp = "predictStep" /\ nlRet = "true"
      /\ nlOp' = "correctStep" /\ nOps' # nOps
      /\ linsol' = ZeroVec(NDofs)) =>
       LET iV == Len(solution) - 1
           iA == Len(solution)
       IN  /\ solution'[iV] = predVel
           /\ solution'[iA] = predAcc
           /\ \A i \in 1..NDofs :
                /\ solution'[iV][i] = RNeg(solution[iV][i])
                /\ solution'[iA][i] = RNeg(solution[iA][i])]_vars

\* a correctStep with a zero increment has followed a predictStep that
\* wrote a non-zero velocity and acceleration: the third operation, with
\* one predictStep before it and no increment accumulated
C26_Witness ==
  /\ nlOp = "correctStep"
  /\ nlRet = "true"
  /\ nOps = 3
  /\ nPred = 1
  /\ linsol = ZeroVec(NDofs)
  /\ incDis = ZeroVec(NDofs)
  /\ Len(solution) >= 3
  /\ solution[Len(solution) - 1] # ZeroVec(NDofs)
  /\ solution[Len(solution)] # ZeroVec(NDofs)
  /\ solution[Len(solution) - 1] = predVel

====
